---- MODULE Spec2Model ----
(***************************************************************************)
(* Model of the helpdesk dashboard API core:                               *)
(*   - package pager: Size, Cursor, EncodeCursor, DecodeCursor             *)
(*   - package helpdesk: TicketQuery.ToSql, listTickets, ListTickets,      *)
(*     BatchGetTicketsQuery.ToSql, batchGetTickets, GenExcel and the four  *)
(*     writer goroutines gen*ToExcel                                       *)
(* Strings are sequences of bytes (0..255).                                *)
(***************************************************************************)
EXTENDS Integers, Sequences, FiniteSets, TLC

(***************************************************************************)
(* Bounds of the model.                                                    *)
(***************************************************************************)
\* largest requested page size drawn for pager.Size
MaxSizeArg == 500
\* requested sizes below zero drawn for pager.Size: -MaxNeg .. -1
MaxNeg == 5
\* longest cursor ID (in bytes) drawn for the cursor codec
MaxIdLen == 2
\* largest number of tickets in a store whose categories are drawn freely
MaxTickets == 5
\* largest page size a list request asks for (besides one above the cap)
MaxPageSize == 3
\* tickets inserted during one walk
MaxInserts == 2
\* largest number of tickets in a store an export reads
MaxExcelTickets == 5
\* largest number of tickets in a store that serves list and export requests
MaxCoreTickets == 3
\* the batch size GenExcel passes to batchGetTickets.  The code passes 200;
\* the loop does not depend on the value, and the model runs it with a small
\* one so that an export of a few tickets takes several batches.
BatchSize == 2
\* the last row of a sheet that SetCellValue accepts (1048576 in excelize,
\* scaled with the stores).  The rows of the summary sheet, at most 24 plus
\* the number of groups, stay below the library's limit and are not scaled.
DetailRowLimit == 5
\* largest number of tickets in a store two concurrent exports read
MaxCallTickets == 3

(***************************************************************************)
(* uint64: TLC integers are 32 bits wide, so a uint64 is kept as four      *)
(* 16-bit limbs, most significant first.                                   *)
(***************************************************************************)
Limb == 2 ^ 16

\* the Go conversion uint64(n) of a signed integer n, -Limb <= n < Limb:
\* n mod 2^64
ToUint64(n) ==
    IF n >= 0 THEN <<0, 0, 0, n>> ELSE <<Limb - 1, Limb - 1, Limb - 1, Limb + n>>

\* u <= k and u > k for a uint64 u and a small constant k (unsigned compare)
U64Leq(u, k) == u[1] = 0 /\ u[2] = 0 /\ u[3] = 0 /\ u[4] <= k
U64Gt(u, k) == ~U64Leq(u, k)

\* the Go conversion int(u) of a uint64 that fits one limb
U64ToInt(u) == u[4]

(***************************************************************************)
(* pager.Size                                                              *)
(***************************************************************************)
\* a slip in the cap test: >= 200 sends 200 itself down the cap branch, which
\* here returns the bound minus one
SizeOffByOne(size) ==
    IF U64Leq(size, 0) THEN ToUint64(20)
    ELSE IF U64Gt(size, 199) THEN ToUint64(199)
    ELSE size

\* a slip in the default: 2000 instead of 20
SizeBadDefault(size) ==
    IF U64Leq(size, 0) THEN ToUint64(2000)
    ELSE IF U64Gt(size, 200) THEN ToUint64(200)
    ELSE size

Size(size) ==
    IF U64Leq(size, 0) THEN ToUint64(20)
    ELSE IF U64Gt(size, 200) THEN ToUint64(200)
    ELSE size

(***************************************************************************)
(* Byte-string helpers.                                                    *)
(***************************************************************************)
RECURSIVE Digits(_, _)
\* n in decimal, zero-padded to w digits (fmt %0wd)
Digits(n, w) == IF w = 0 THEN <<>> ELSE Digits(n \div 10, w - 1) \o <<48 + (n % 10)>>

RECURSIVE Num(_)
\* the value of a string of decimal digits
Num(s) == IF s = <<>> THEN 0 ELSE Num(SubSeq(s, 1, Len(s) - 1)) * 10 + (s[Len(s)] - 48)

IsDigits(s) == \A i \in 1..Len(s) : s[i] \in 48..57

RECURSIVE TrimZeros(_)
TrimZeros(s) ==
    IF s # <<>> /\ s[Len(s)] = 48 THEN TrimZeros(SubSeq(s, 1, Len(s) - 1)) ELSE s

RECURSIVE Pow10(_)
Pow10(k) == IF k = 0 THEN 1 ELSE 10 * Pow10(k - 1)

Drop(s, k) == SubSeq(s, k + 1, Len(s))
Take(s, k) == SubSeq(s, 1, IF k > Len(s) THEN Len(s) ELSE k)
HasPrefix(s, p) == Len(s) >= Len(p) /\ Take(s, Len(p)) = p

\* lower-case hexadecimal digit
Hex(h) == IF h < 10 THEN 48 + h ELSE 87 + h
IsHex(b) == b \in 48..57 \/ b \in 97..102 \/ b \in 65..70
UnHex(b) == IF b \in 48..57 THEN b - 48 ELSE IF b \in 97..102 THEN b - 87 ELSE b - 55

(***************************************************************************)
(* time.Time as the cursor carries it: the civil date and time, the        *)
(* nanoseconds and the zone offset in minutes (0 is UTC).  Values read     *)
(* from the store carry no monotonic clock reading.                        *)
(***************************************************************************)
MkTime(y, mo, d, h, mi, s, ns, off) ==
    [year |-> y, month |-> mo, day |-> d, hour |-> h, min |-> mi, sec |-> s,
     nsec |-> ns, off |-> off]

\* time.Time{} : January 1, year 1, 00:00:00 UTC
ZeroTime == MkTime(1, 1, 1, 0, 0, 0, 0, 0)

IsLeap(y) == y % 4 = 0 /\ (y % 100 # 0 \/ y % 400 = 0)
DaysIn(mo, y) ==
    IF mo = 2 THEN (IF IsLeap(y) THEN 29 ELSE 28)
    ELSE IF mo \in {4, 6, 9, 11} THEN 30 ELSE 31

\* Time.Format(time.RFC3339Nano): "2006-01-02T15:04:05.999999999Z07:00"
FormatRFC3339Nano(t) ==
    LET frac == IF t.nsec = 0 THEN <<>> ELSE <<46>> \o TrimZeros(Digits(t.nsec, 9))
        a == IF t.off < 0 THEN 0 - t.off ELSE t.off
        zone == IF t.off = 0 THEN <<90>>
                ELSE <<IF t.off < 0 THEN 45 ELSE 43>> \o Digits(a \div 60, 2)
                     \o <<58>> \o Digits(a % 60, 2)
    IN  Digits(t.year, 4) \o <<45>> \o Digits(t.month, 2) \o <<45>> \o Digits(t.day, 2)
        \o <<84>> \o Digits(t.hour, 2) \o <<58>> \o Digits(t.min, 2) \o <<58>>
        \o Digits(t.sec, 2) \o frac \o zone

\* Time.MarshalJSON: fails for a year outside [0,9999]
TimeMarshalJSON(t) ==
    IF t.year < 0 \/ t.year >= 10000 THEN [err |-> TRUE, bytes |-> <<>>]
    ELSE [err |-> FALSE, bytes |-> <<34>> \o FormatRFC3339Nano(t) \o <<34>>]

\* the length of the run of digits s starts with
RECURSIVE DigitRun(_)
DigitRun(s) == IF s # <<>> /\ s[1] \in 48..57 THEN 1 + DigitRun(Tail(s)) ELSE 0

\* the zone suffix of an RFC 3339 time: "Z" or +hh:mm / -hh:mm
ParseZone(z) ==
    IF z = <<90>> THEN [err |-> FALSE, off |-> 0]
    ELSE IF Len(z) = 6 /\ z[1] \in {43, 45} /\ IsDigits(SubSeq(z, 2, 3)) /\ z[4] = 58
            /\ IsDigits(SubSeq(z, 5, 6)) /\ Num(SubSeq(z, 2, 3)) < 24
            /\ Num(SubSeq(z, 5, 6)) < 60
         THEN [err |-> FALSE,
               off |-> (IF z[1] = 45 THEN 0 - 1 ELSE 1)
                       * (Num(SubSeq(z, 2, 3)) * 60 + Num(SubSeq(z, 5, 6)))]
         ELSE [err |-> TRUE, off |-> 0]

\* Time.UnmarshalJSON on the text between the quotes (strict RFC 3339)
ParseRFC3339(s) ==
    LET bad == [err |-> TRUE, t |-> ZeroTime]
    IN  IF ~(Len(s) >= 20 /\ IsDigits(SubSeq(s, 1, 4)) /\ s[5] = 45
             /\ IsDigits(SubSeq(s, 6, 7)) /\ s[8] = 45 /\ IsDigits(SubSeq(s, 9, 10))
             /\ s[11] = 84 /\ IsDigits(SubSeq(s, 12, 13)) /\ s[14] = 58
             /\ IsDigits(SubSeq(s, 15, 16)) /\ s[17] = 58 /\ IsDigits(SubSeq(s, 18, 19)))
        THEN bad
        ELSE
        LET y == Num(SubSeq(s, 1, 4))
            mo == Num(SubSeq(s, 6, 7))
            d == Num(SubSeq(s, 9, 10))
            h == Num(SubSeq(s, 12, 13))
            mi == Num(SubSeq(s, 15, 16))
            sc == Num(SubSeq(s, 18, 19))
            r == Drop(s, 19)
            nfrac == IF r[1] = 46 THEN DigitRun(Tail(r)) ELSE 0
            \* digits after the ninth are dropped
            kept == IF nfrac > 9 THEN 9 ELSE nfrac
            ns == IF nfrac = 0 THEN 0
                  ELSE Num(SubSeq(r, 2, 1 + kept)) * Pow10(9 - kept)
            z == IF r[1] = 46 THEN Drop(r, 1 + nfrac) ELSE r
            pz == ParseZone(z)
        IN  IF (r[1] = 46 /\ nfrac = 0) \/ pz.err
               \/ mo < 1 \/ mo > 12 \/ d < 1 \/ d > DaysIn(mo, y)
               \/ h > 23 \/ mi > 59 \/ sc > 59
            THEN bad
            ELSE [err |-> FALSE, t |-> MkTime(y, mo, d, h, mi, sc, ns, pz.off)]

(***************************************************************************)
(* encoding/json on the Cursor struct {ID string `json:"id"`;              *)
(* Time time.Time `json:"time"`}.                                          *)
(***************************************************************************)
IsCont(b) == b \in 128..191

\* the length of the well-formed UTF-8 sequence s starts with (s[1] >= 128),
\* 0 when there is none
RuneLen(s) ==
    LET b == s[1]
        n == Len(s)
    IN  IF b \in 194..223 /\ n >= 2 /\ IsCont(s[2]) THEN 2
        ELSE IF b \in 224..239 /\ n >= 3 /\ IsCont(s[2]) /\ IsCont(s[3])
                /\ (b = 224 => s[2] >= 160) /\ (b = 237 => s[2] <= 159) THEN 3
        ELSE IF b \in 240..244 /\ n >= 4 /\ IsCont(s[2]) /\ IsCont(s[3]) /\ IsCont(s[4])
                /\ (b = 240 => s[2] >= 144) /\ (b = 244 => s[2] <= 143) THEN 4
        ELSE 0

RECURSIVE ValidUTF8(_)
ValidUTF8(s) ==
    IF s = <<>> THEN TRUE
    ELSE IF s[1] < 128 THEN ValidUTF8(Tail(s))
    ELSE RuneLen(s) # 0 /\ ValidUTF8(Drop(s, RuneLen(s)))

\* utf8.AppendRune
UTF8Encode(r) ==
    IF r < 128 THEN <<r>>
    ELSE IF r < 2048 THEN <<192 + (r \div 64), 128 + (r % 64)>>
    ELSE IF r < 65536 THEN <<224 + (r \div 4096), 128 + ((r \div 64) % 64), 128 + (r % 64)>>
    ELSE <<240 + (r \div 262144), 128 + ((r \div 4096) % 64),
           128 + ((r \div 64) % 64), 128 + (r % 64)>>

\* the bytes json writes literally inside a string (htmlSafeSet)
HtmlSafe(b) == b >= 32 /\ b \notin {34, 92, 60, 62, 38}

\* the escape json writes for an ASCII byte outside htmlSafeSet
EscapeByte(b) ==
    IF b \in {92, 34} THEN <<92, b>>
    ELSE IF b = 8 THEN <<92, 98>>
    ELSE IF b = 12 THEN <<92, 102>>
    ELSE IF b = 10 THEN <<92, 110>>
    ELSE IF b = 13 THEN <<92, 114>>
    ELSE IF b = 9 THEN <<92, 116>>
    ELSE <<92, 117, 48, 48, Hex(b \div 16), Hex(b % 16)>>

RECURSIVE JsonEscape(_)
\* the body of a JSON string for the Go string s: an ill-formed byte becomes
\* �, U+2028 and U+2029 are escaped
JsonEscape(s) ==
    IF s = <<>> THEN <<>>
    ELSE IF s[1] < 128
         THEN (IF HtmlSafe(s[1]) THEN <<s[1]>> ELSE EscapeByte(s[1]))
              \o JsonEscape(Tail(s))
    ELSE IF RuneLen(s) = 0 THEN <<92, 117, 102, 102, 102, 100>> \o JsonEscape(Tail(s))
    ELSE IF Take(s, 3) = <<226, 128, 168>>
         THEN <<92, 117, 50, 48, 50, 56>> \o JsonEscape(Drop(s, 3))
    ELSE IF Take(s, 3) = <<226, 128, 169>>
         THEN <<92, 117, 50, 48, 50, 57>> \o JsonEscape(Drop(s, 3))
    ELSE Take(s, RuneLen(s)) \o JsonEscape(Drop(s, RuneLen(s)))

\* the four hex digits after a \u
IsU4(s) == Len(s) >= 4 /\ \A i \in 1..4 : IsHex(s[i])
U4(s) == UnHex(s[1]) * 4096 + UnHex(s[2]) * 256 + UnHex(s[3]) * 16 + UnHex(s[4])

RECURSIVE Unquote(_, _)
\* reads the body of a JSON string up to its closing quote: the Go string it
\* denotes (acc) and the input left after the quote
Unquote(s, acc) ==
    LET bad == [err |-> TRUE, str |-> <<>>, rest |-> <<>>]
    IN  IF s = <<>> THEN bad
        ELSE IF s[1] = 34 THEN [err |-> FALSE, str |-> acc, rest |-> Tail(s)]
        ELSE IF s[1] < 32 THEN bad
        ELSE IF s[1] = 92 THEN
            IF Len(s) < 2 THEN bad
            ELSE IF s[2] \in {34, 92, 47} THEN Unquote(Drop(s, 2), acc \o <<s[2]>>)
            ELSE IF s[2] = 98 THEN Unquote(Drop(s, 2), acc \o <<8>>)
            ELSE IF s[2] = 102 THEN Unquote(Drop(s, 2), acc \o <<12>>)
            ELSE IF s[2] = 110 THEN Unquote(Drop(s, 2), acc \o <<10>>)
            ELSE IF s[2] = 114 THEN Unquote(Drop(s, 2), acc \o <<13>>)
            ELSE IF s[2] = 116 THEN Unquote(Drop(s, 2), acc \o <<9>>)
            ELSE IF s[2] = 117 /\ IsU4(Drop(s, 2)) THEN
                LET r == U4(Drop(s, 2))
                    t == Drop(s, 6)
                    pair == r \in 55296..56319 /\ HasPrefix(t, <<92, 117>>)
                            /\ IsU4(Drop(t, 2)) /\ U4(Drop(t, 2)) \in 56320..57343
                IN  IF pair
                    THEN Unquote(Drop(t, 6), acc \o UTF8Encode(
                             65536 + (r - 55296) * 1024 + (U4(Drop(t, 2)) - 56320)))
                    ELSE IF r \in 55296..57343
                    THEN Unquote(t, acc \o <<239, 191, 189>>)
                    ELSE Unquote(t, acc \o UTF8Encode(r))
            ELSE bad
        ELSE IF s[1] < 128 THEN Unquote(Tail(s), acc \o <<s[1]>>)
        ELSE IF RuneLen(s) = 0 THEN Unquote(Tail(s), acc \o <<239, 191, 189>>)
        ELSE Unquote(Drop(s, RuneLen(s)), acc \o Take(s, RuneLen(s)))

RECURSIVE IndexQuoteFrom(_, _)
IndexQuoteFrom(s, k) ==
    IF k > Len(s) THEN 0 ELSE IF s[k] = 34 THEN k ELSE IndexQuoteFrom(s, k + 1)

\* the position of the first quote in s, 0 when there is none
IndexQuote(s) == IndexQuoteFrom(s, 1)

MkCursor(id, t) == [ID |-> id, Time |-> t]

\* &Cursor{} : the zero cursor DecodeCursor starts from
ZeroCursor == MkCursor(<<>>, ZeroTime)

\* json.Marshal(c): {"id":"...","time":"..."}; fails when the time does
JsonMarshalCursor(c) ==
    LET t == TimeMarshalJSON(c.Time)
    IN  IF t.err THEN [err |-> TRUE, bytes |-> <<>>]
        ELSE [err |-> FALSE,
              bytes |-> <<123, 34, 105, 100, 34, 58, 34>> \o JsonEscape(c.ID) \o <<34>>
                        \o <<44, 34, 116, 105, 109, 101, 34, 58>> \o t.bytes \o <<125>>]

\* json.Unmarshal(cj, c) for an object laid out as json.Marshal lays it out:
\* {"id":<string>,"time":<string>}.  Anything else is reported as an error.
\* A time that does not parse leaves the ID that was already stored.
JsonUnmarshalCursor(cj) ==
    LET bad == [err |-> TRUE, c |-> ZeroCursor]
    IN  IF ~HasPrefix(cj, <<123, 34, 105, 100, 34, 58, 34>>) THEN bad
        ELSE
        LET u == Unquote(Drop(cj, 7), <<>>)
        IN  IF u.err \/ ~HasPrefix(u.rest, <<44, 34, 116, 105, 109, 101, 34, 58, 34>>)
            THEN bad
            ELSE
            LET r == Drop(u.rest, 9)
                q == IndexQuote(r)
            IN  IF q = 0 \/ Drop(r, q) # <<125>> THEN bad
                ELSE
                LET p == ParseRFC3339(Take(r, q - 1))
                IN  IF p.err THEN [err |-> TRUE, c |-> MkCursor(u.str, ZeroTime)]
                    ELSE [err |-> FALSE, c |-> MkCursor(u.str, p.t)]

(***************************************************************************)
(* encoding/base64 RawURLEncoding: the URL-safe alphabet, no padding.      *)
(***************************************************************************)
\* the character of a 6-bit value
B64Char(i) ==
    IF i < 26 THEN 65 + i
    ELSE IF i < 52 THEN 97 + (i - 26)
    ELSE IF i < 62 THEN 48 + (i - 52)
    ELSE IF i = 62 THEN 45 ELSE 95

IsB64(ch) == ch \in 65..90 \/ ch \in 97..122 \/ ch \in 48..57 \/ ch \in {45, 95}

\* the 6-bit value of a character of the alphabet
B64Index(ch) ==
    IF ch \in 65..90 THEN ch - 65
    ELSE IF ch \in 97..122 THEN ch - 97 + 26
    ELSE IF ch \in 48..57 THEN ch - 48 + 52
    ELSE IF ch = 45 THEN 62 ELSE 63

RECURSIVE B64Encode(_)
\* base64.RawURLEncoding.EncodeToString
B64Encode(bs) ==
    IF Len(bs) = 0 THEN <<>>
    ELSE IF Len(bs) = 1
         THEN <<B64Char(bs[1] \div 4), B64Char((bs[1] % 4) * 16)>>
    ELSE IF Len(bs) = 2
         THEN <<B64Char(bs[1] \div 4), B64Char((bs[1] % 4) * 16 + (bs[2] \div 16)),
                B64Char((bs[2] % 16) * 4)>>
    ELSE <<B64Char(bs[1] \div 4), B64Char((bs[1] % 4) * 16 + (bs[2] \div 16)),
           B64Char((bs[2] % 16) * 4 + (bs[3] \div 64)), B64Char(bs[3] % 64)>>
         \o B64Encode(Drop(bs, 3))

RECURSIVE B64Bytes(_)
\* the bytes of a string of alphabet characters; a lone trailing character
\* is an error, trailing bits are dropped
B64Bytes(s) ==
    LET i(k) == B64Index(s[k])
    IN  IF Len(s) = 0 THEN [err |-> FALSE, bytes |-> <<>>]
        ELSE IF Len(s) = 1 THEN [err |-> TRUE, bytes |-> <<>>]
        ELSE IF Len(s) = 2 THEN [err |-> FALSE, bytes |-> <<i(1) * 4 + (i(2) \div 16)>>]
        ELSE IF Len(s) = 3
             THEN [err |-> FALSE,
                   bytes |-> <<i(1) * 4 + (i(2) \div 16), (i(2) % 16) * 16 + (i(3) \div 4)>>]
        ELSE LET r == B64Bytes(Drop(s, 4))
             IN  [err |-> r.err,
                  bytes |-> <<i(1) * 4 + (i(2) \div 16), (i(2) % 16) * 16 + (i(3) \div 4),
                              (i(3) % 4) * 64 + i(4)>> \o r.bytes]

\* base64.RawURLEncoding.DecodeString: carriage returns and line feeds are
\* skipped, any other character outside the alphabet is an error
B64Decode(s) ==
    LET t == SelectSeq(s, LAMBDA ch : ch \notin {10, 13})
    IN  IF \E k \in 1..Len(t) : ~IsB64(t[k]) THEN [err |-> TRUE, bytes |-> <<>>]
        ELSE LET r == B64Bytes(t)
             IN  IF r.err THEN [err |-> TRUE, bytes |-> <<>>] ELSE r

(***************************************************************************)
(* pager.EncodeCursor and pager.DecodeCursor                               *)
(***************************************************************************)
\* a slip: the error of json.Marshal is dropped (as in the code) and the ID
\* is written without JSON escaping
EncodeCursorRawID(c) ==
    LET t == TimeMarshalJSON(c.Time)
    IN  B64Encode(IF t.err THEN <<>>
                  ELSE <<123, 34, 105, 100, 34, 58, 34>> \o c.ID \o <<34>>
                       \o <<44, 34, 116, 105, 109, 101, 34, 58>> \o t.bytes \o <<125>>)

\* cj, _ := json.Marshal(c): on an error cj is nil and the token is ""
EncodeCursor(c) ==
    LET m == JsonMarshalCursor(c)
    IN  B64Encode(IF m.err THEN <<>> ELSE m.bytes)

\* returns the cursor and the error of the base64 or of the JSON step
DecodeCursor(s) ==
    LET d == B64Decode(s)
    IN  IF d.err THEN [err |-> TRUE, c |-> ZeroCursor]
        ELSE JsonUnmarshalCursor(d.bytes)

(***************************************************************************)
(* The ticket view and the records read from it.  The identifier is an     *)
(* integer in the store and its decimal text in Ticket.ID.  The filters    *)
(* are a conjunction of independent clauses; the model carries the         *)
(* category clause and the cursor clause.                                  *)
(***************************************************************************)
RECURSIVE IdToStr(_)
\* the text the driver scans an identifier into
IdToStr(n) == IF n < 10 THEN <<48 + n>> ELSE IdToStr(n \div 10) \o <<48 + (n % 10)>>

\* the closed_date of a ticket that is not closed
SentinelDate == MkTime(1900, 1, 1, 0, 0, 0, 0, 0)

RawStatuses ==
    <<"PENDING", "FINISHED,MANAGER(APPROVE),IT(PENDING)",
      "FINISHED,MANAGER(APPROVE),IT(CANCEL)", "FINISHED,MANAGER(APPROVE),IT(IN PROGRESS)",
      "REQUEST", "FINISHED,MANAGER(APPROVE),IT(RESOLVE)",
      "FINISHED,MANAGER(APPROVE),IT(SENDING)", "FINISHED,MANAGER(APPROVE),IT(REPENDING)",
      "REJECT,MANAGER(REJECT)", "DRAFT", "", "pending">>

RawPriorities == <<"HIGHT", "MEDIUEM", "LOW", "">>

SupporterNames == <<"Kham", "Noy", "">>

\* a row of the view; the columns the model does not draw are fixed by id
MkRow(id, category) ==
    [id |-> id,
     category |-> category,
     priority |-> RawPriorities[1 + (id % Len(RawPriorities))],
     status |-> RawStatuses[1 + (id % Len(RawStatuses))],
     supporter_name |-> SupporterNames[1 + (id % Len(SupporterNames))],
     created_at |-> MkTime(2024, 1, 1 + (id % 28), id % 24, 0, 0, 0, 0),
     closed_date |-> IF id % 2 = 0 THEN SentinelDate
                     ELSE MkTime(2024, 2, 1 + (id % 28), 0, 0, 0, 0, 0)]

\* a column that holds no value (SQL NULL)
SqlNull == "<NULL>"

\* the row of the store with its status and its priority holding no value
NullColumns(row) == [row EXCEPT !.status = SqlNull, !.priority = SqlNull]

\* rows.Scan stores a NULL into a *string destination with an error
ScanFails(row) == row.status = SqlNull \/ row.priority = SqlNull

\* the store with ids 1..n whose rows in net have category Network
StoreOf(n, net) ==
    {MkRow(id, IF id \in net THEN "Network" ELSE "Printer") : id \in 1..n}

\* mapStatus, the table of the help-desk listing
mapStatus(status) ==
    CASE status \in {"PENDING", "FINISHED,MANAGER(APPROVE),IT(PENDING)"} -> "PENDING"
      [] status = "FINISHED,MANAGER(APPROVE),IT(CANCEL)" -> "CANCELED"
      [] status = "FINISHED,MANAGER(APPROVE),IT(IN PROGRESS)" -> "IN_PROGRESS"
      [] status = "REQUEST" -> "REQUEST"
      [] status = "FINISHED,MANAGER(APPROVE),IT(RESOLVE)" -> "RESOLVED"
      [] status = "FINISHED,MANAGER(APPROVE),IT(SENDING)" -> "SENDING"
      [] status = "FINISHED,MANAGER(APPROVE),IT(REPENDING)" -> "RE_PENDING"
      [] status = "REJECT,MANAGER(REJECT)" -> "REJECTED"
      [] OTHER -> "PENDING"

\* a slip in the table: a raw string outside it is passed through
mapTicketStatusPassThrough(status) ==
    CASE status \in {"PENDING", "FINISHED,MANAGER(APPROVE),IT(PENDING)"} -> "PENDING"
      [] status = "FINISHED,MANAGER(APPROVE),IT(CANCEL)" -> "CANCELED"
      [] status = "FINISHED,MANAGER(APPROVE),IT(IN PROGRESS)" -> "IN_PROGRESS"
      [] status = "REQUEST" -> "REQUEST"
      [] status = "FINISHED,MANAGER(APPROVE),IT(RESOLVE)" -> "RESOLVED"
      [] status = "FINISHED,MANAGER(APPROVE),IT(SENDING)" -> "SENDING"
      [] status = "FINISHED,MANAGER(APPROVE),IT(REPENDING)" -> "RE_PENDING"
      [] status = "REJECT,MANAGER(REJECT)" -> "REJECTED"
      [] OTHER -> status

mapTicketStatus(status) ==
    CASE status \in {"PENDING", "FINISHED,MANAGER(APPROVE),IT(PENDING)"} -> "PENDING"
      [] status = "FINISHED,MANAGER(APPROVE),IT(CANCEL)" -> "CANCELED"
      [] status = "FINISHED,MANAGER(APPROVE),IT(IN PROGRESS)" -> "IN_PROGRESS"
      [] status = "REQUEST" -> "REQUEST"
      [] status = "FINISHED,MANAGER(APPROVE),IT(RESOLVE)" -> "RESOLVED"
      [] status = "FINISHED,MANAGER(APPROVE),IT(SENDING)" -> "SENDING"
      [] status = "FINISHED,MANAGER(APPROVE),IT(REPENDING)" -> "RE_PENDING"
      [] status = "REJECT,MANAGER(REJECT)" -> "REJECTED"
      [] OTHER -> "PENDING"

\* rows.Scan into a Ticket, then s.Status = mapTicketStatus(status)
ScanTicket(row) ==
    [ID |-> IdToStr(row.id),
     Category |-> row.category,
     Priority |-> row.priority,
     Status |-> mapTicketStatus(row.status),
     Supporter |-> row.supporter_name,
     CreatedAt |-> row.created_at,
     ClosedDate |-> row.closed_date]

\* the predicate with no cursor clause
NoBound == [set |-> FALSE, id |-> <<>>]

\* a slip in the cursor clause: "id <= ?"
IdClauseHoldsLeq(rowId, bound) ==
    bound.set => rowId <= Num(bound.id)

\* the store's evaluation of the clause "id < ?" with the bound's text
IdClauseHolds(rowId, bound) ==
    bound.set => rowId < Num(bound.id)

\* the store's evaluation of a predicate on a row
Matches(row, pred) ==
    /\ pred.category # "" => row.category = pred.category
    /\ IdClauseHolds(row.id, pred.bound)

RECURSIVE SortDesc(_)
\* ORDER BY id DESC
SortDesc(rows) ==
    IF rows = {} THEN <<>>
    ELSE LET mx == CHOOSE r \in rows : \A q \in rows : q.id <= r.id
         IN  <<mx>> \o SortDesc(rows \ {mx})

\* a slip in the query: no TOP clause
QueryRowsUnbounded(rows, pred, top, ok) ==
    IF ~ok \/ (pred.bound.set /\ ~IsDigits(pred.bound.id))
    THEN [err |-> TRUE, rows |-> <<>>]
    ELSE [err |-> FALSE, rows |-> SortDesc({r \in rows : Matches(r, pred)})]

\* SELECT TOP top ... WHERE pred ORDER BY id DESC; ok is whether the store
\* answers.  A bound that is no number fails the query.
QueryRows(rows, pred, top, ok) ==
    IF ~ok \/ (pred.bound.set /\ ~IsDigits(pred.bound.id))
    THEN [err |-> TRUE, rows |-> <<>>]
    ELSE [err |-> FALSE,
          rows |-> Take(SortDesc({r \in rows : Matches(r, pred)}), top)]

ScanAll(rows) == [i \in 1..Len(rows) |-> ScanTicket(rows[i])]

(***************************************************************************)
(* TicketQuery.ToSql, listTickets and Service.ListTickets                  *)
(***************************************************************************)
MkTicketQuery(category, pageSize, pageToken) ==
    [Category |-> category, PageSize |-> pageSize, PageToken |-> pageToken]

\* a slip in the cursor clause: a cursor with the zero time binds nothing
CursorClauseTimed(d, q) ==
    IF d.err THEN [err |-> TRUE, pred |-> [category |-> "", bound |-> NoBound]]
    ELSE [err |-> FALSE,
          pred |-> [category |-> q.Category,
                    bound |-> IF d.c.Time = ZeroTime THEN NoBound
                              ELSE [set |-> TRUE, id |-> d.c.ID]]]

\* a slip in the cursor clause: the cursor's identifier is not bound
CursorClauseUnbound(d, q) ==
    IF d.err THEN [err |-> TRUE, pred |-> [category |-> "", bound |-> NoBound]]
    ELSE [err |-> FALSE, pred |-> [category |-> q.Category, bound |-> NoBound]]

\* the clause "id < ?" with cursor.ID, or the error of DecodeCursor
CursorClause(d, q) ==
    IF d.err THEN [err |-> TRUE, pred |-> [category |-> "", bound |-> NoBound]]
    ELSE [err |-> FALSE,
          pred |-> [category |-> q.Category, bound |-> [set |-> TRUE, id |-> d.c.ID]]]

TicketQueryToSql(q) ==
    IF q.PageToken # <<>>
    THEN CursorClause(DecodeCursor(q.PageToken), q)
    ELSE [err |-> FALSE, pred |-> [category |-> q.Category, bound |-> NoBound]]

\* the rows of the query scanned into tickets
ScanRows(r) ==
    IF r.err \/ (\E i \in 1..Len(r.rows) : ScanFails(r.rows[i]))
    THEN [err |-> TRUE, tickets |-> <<>>, queried |-> TRUE]
    ELSE [err |-> FALSE, tickets |-> ScanAll(r.rows), queried |-> TRUE]

\* a slip: the error of ToSql is not looked at and the query runs unbound
RunTicketQueryAnyway(rows, sql, in, ok) ==
    ScanRows(QueryRows(rows, sql.pred, U64ToInt(Size(in.PageSize)), ok))

\* the query built by ToSql, run with TOP Size(PageSize); queried tells
\* whether db.QueryContext was reached
RunTicketQuery(rows, sql, in, ok) ==
    IF sql.err THEN [err |-> TRUE, tickets |-> <<>>, queried |-> FALSE]
    ELSE ScanRows(QueryRows(rows, sql.pred, U64ToInt(Size(in.PageSize)), ok))

listTickets(rows, in, ok) == RunTicketQuery(rows, TicketQueryToSql(in), in, ok)

\* a slip in the token test: no page gets a token
NeedsTokenNever(l, pageSize) == FALSE

\* a slip in the token test: a token for every non-empty page
NeedsTokenAlways(l, pageSize) == l > 0

\* l > 0 && l == int(pager.Size(in.PageSize))
NeedsToken(l, pageSize) == l > 0 /\ l = U64ToInt(Size(pageSize))

\* the token of the last ticket of a page
LastTicketToken(last) == EncodeCursor(MkCursor(last.ID, last.CreatedAt))

\* the result built from what listTickets returned
ListTicketsResult(r, in) ==
    IF r.err
    THEN [err |-> TRUE, Tickets |-> <<>>, NextPageToken |-> <<>>, queried |-> r.queried]
    ELSE [err |-> FALSE,
          queried |-> r.queried,
          Tickets |-> r.tickets,
          NextPageToken |->
              IF NeedsToken(Len(r.tickets), in.PageSize)
              THEN LastTicketToken(r.tickets[Len(r.tickets)])
              ELSE <<>>]

ListTickets(rows, in, ok) == ListTicketsResult(listTickets(rows, in, ok), in)

(***************************************************************************)
(* BatchGetTicketsQuery.ToSql and batchGetTickets                          *)
(***************************************************************************)
MkBatchQuery(category, nextID) == [Category |-> category, nextID |-> nextID]

BatchGetTicketsQueryToSql(q) ==
    [category |-> q.Category,
     bound |-> IF q.nextID # <<>> THEN [set |-> TRUE, id |-> q.nextID] ELSE NoBound]

\* in.nextID = nextID, then one query; the query is returned as it was left
batchGetTickets(rows, batchSize, nextID, in, ok) ==
    LET q == [in EXCEPT !.nextID = nextID]
        r == QueryRows(rows, BatchGetTicketsQueryToSql(q), batchSize, ok)
    IN  IF r.err \/ (\E i \in 1..Len(r.rows) : ScanFails(r.rows[i]))
        THEN [err |-> TRUE, tickets |-> <<>>, in |-> q]
        ELSE [err |-> FALSE, tickets |-> ScanAll(r.rows), in |-> q]

(***************************************************************************)
(* The aggregate reports.  ReportQuery carries the creation-time range     *)
(* only, so every row of the view is counted.                              *)
(***************************************************************************)
\* ORDER BY category ASC / supporter_name ASC over the names of the model
CategoryOrder == <<"", "Network", "Printer">>
SupporterOrder == <<"", "Kham", "Noy">>

InProgressRaw == "FINISHED,MANAGER(APPROVE),IT(IN PROGRESS)"
ResolvedRaw == "FINISHED,MANAGER(APPROVE),IT(RESOLVE)"

\* a slip: the empty name is kept
BlankNameKept(name) == name

BlankName(name) == IF name = "" THEN "(Blank)" ELSE name

StatusReportRow(name, group) ==
    [Name |-> BlankName(name),
     InProgress |-> Cardinality({r \in group : r.status = InProgressRaw}),
     Resolved |-> Cardinality({r \in group : r.status = ResolvedRaw}),
     Blank |-> Cardinality({r \in group :
                   r.status # SqlNull /\ r.status \notin {InProgressRaw, ResolvedRaw}}),
     Total |-> Cardinality(group)]

PriorityReportRow(name, group) ==
    [Name |-> BlankName(name),
     High |-> Cardinality({r \in group : r.priority = "HIGHT"}),
     Medium |-> Cardinality({r \in group : r.priority = "MEDIUEM"}),
     Low |-> Cardinality({r \in group : r.priority = "LOW"}),
     Blank |-> Cardinality({r \in group :
                   r.priority # SqlNull /\ r.priority \notin {"HIGHT", "MEDIUEM", "LOW"}}),
     Total |-> Cardinality(group)]

listCategoryReports(rows, ok) ==
    LET names == SelectSeq(CategoryOrder, LAMBDA c : \E r \in rows : r.category = c)
    IN  IF ~ok THEN [err |-> TRUE, reports |-> <<>>]
        ELSE [err |-> FALSE,
              reports |-> [i \in 1..Len(names) |->
                  StatusReportRow(names[i], {r \in rows : r.category = names[i]})]]

listSupporterReports(rows, ok) ==
    LET names == SelectSeq(SupporterOrder, LAMBDA c : \E r \in rows : r.supporter_name = c)
    IN  IF ~ok THEN [err |-> TRUE, reports |-> <<>>]
        ELSE [err |-> FALSE,
              reports |-> [i \in 1..Len(names) |->
                  StatusReportRow(names[i], {r \in rows : r.supporter_name = names[i]})]]

listPriorityReports(rows, ok) ==
    LET names == SelectSeq(CategoryOrder, LAMBDA c : \E r \in rows : r.category = c)
    IN  IF ~ok THEN [err |-> TRUE, reports |-> <<>>]
        ELSE [err |-> FALSE,
              reports |-> [i \in 1..Len(names) |->
                  PriorityReportRow(names[i], {r \in rows : r.category = names[i]})]]

(***************************************************************************)
(* The document and the writers.                                           *)
(***************************************************************************)
\* one more write into row r of a sheet
Put(sheet, r, v) ==
    IF r \in DOMAIN sheet THEN [sheet EXCEPT ![r] = Append(@, v)]
    ELSE (r :> <<v>>) @@ sheet

\* SetCellValue on the detail sheet: a row past the sheet's last row is
\* refused with an error
SetCellValueOk(row) == row <= DetailRowLimit

\* Time.Format("2006-01-02") and Time.Format("02/01/2006")
FormatYMD(t) == Digits(t.year, 4) \o <<45>> \o Digits(t.month, 2) \o <<45>> \o Digits(t.day, 2)
FormatDMY(t) == Digits(t.day, 2) \o <<47>> \o Digits(t.month, 2) \o <<47>> \o Digits(t.year, 4)

\* the text genTicketsToExcel writes into column O
ClosedDateCell(t) ==
    IF FormatYMD(t.ClosedDate) # <<49, 57, 48, 48, 45, 48, 49, 45, 48, 49>>
    THEN FormatDMY(t.ClosedDate) ELSE <<>>

\* the cells genTicketsToExcel writes for a ticket (the ticket is kept by
\* its ID; the columns copied from the record as they are are not listed)
TicketCells(t) == [ID |-> t.ID, Status |-> t.Status, ClosedDate |-> ClosedDateCell(t)]

\* a slip in the row of the i-th ticket (i counts from 0): startRow+i+1
TicketRowSkipping(startRow, i) == startRow + i + 1

\* the row of the i-th ticket of a batch (i counts from 0)
TicketRow(startRow, i) == startRow + i

\* a slip in the row of a summary table: the first row lands on the header
SummaryRowOnHeader(startRow, i) == startRow + i

\* the row of the i-th row of a summary table (i counts from 0)
SummaryRow(startRow, i) == startRow + i + 1

\* a slip in the running row offset: advanced by one, not by the page
NextStartRowByOne(startRow, tickets) == startRow + 1

\* startTicketsRow += len(tickets)
NextStartRow(startRow, tickets) == startRow + Len(tickets)

\* a slip in the loop's exit: a short page ends the loop
LoopEndsOnShort(tickets) == Len(tickets) < BatchSize

\* if len(tickets) == 0 { break }
LoopEnds(tickets) == Len(tickets) = 0

\* a slip in the join: Wait returns with one task still registered
WaitReturnsEarly(wg) == wg <= 1

\* wg.Wait() returns when the counter is zero
WaitReturns(wg) == wg = 0

MkTask(kind, startRow, items) ==
    [kind |-> kind, startRow |-> startRow, items |-> items, i |-> 0, done |-> FALSE]

startCategoryReportRow == 4

(***************************************************************************)
(* State.                                                                  *)
(***************************************************************************)
VARIABLES
    \* calls of package pager: the position, the requested page size, the
    \* cursor handed to EncodeCursor and what the calls returned
    pgPc, pgReq, pgCur, pgOut,
    \* the rows of the view v_hepldesk_ticket_report
    db,
    \* a walk over ListTickets: the position, the query of the next call (it
    \* carries the page token) and the results returned so far
    lsPc, lsQuery, lsPages,
    \* the rows the store held when the walk started
    lsStart,
    \* one call of GenExcel.  Its position, the query (batchGetTickets stores
    \* the cursor in it), the three aggregate reports, the locals nextID,
    \* startTicketsRow and tickets, the WaitGroup counter and the service mutex
    exPc, exQuery, exReports, exNextID, exStartRow, exTickets, exWg, mu,
    \* the goroutines started so far, in the order of their go statements
    exTasks,
    \* the document fx: for each row of each sheet the writes it received
    exDetail, exSummary,
    \* what GenExcel returned, and the history the properties read: the calls
    \* of batchGetTickets, the errors of SetCellValue that were discarded,
    \* whether fx was closed and whether a cell was written after that
    exResult, exFetches, exDropped, exClosed, exLate,
    \* the caller's context: "live" or "cancelled"
    exCtx,
    \* two calls of GenExcel on one Service: for each call its query, its
    \* locals and its document; the calls share db and the service mutex
    calls

pagerVars == <<pgPc, pgReq, pgCur, pgOut>>
listVars == <<lsPc, lsQuery, lsPages, lsStart>>
excelVars == <<exPc, exQuery, exReports, exNextID, exStartRow, exTickets, exWg, mu,
               exTasks, exDetail, exSummary, exResult, exFetches, exDropped, exClosed,
               exLate, exCtx, calls>>

vars == <<pgPc, pgReq, pgCur, pgOut, db, lsPc, lsQuery, lsPages, lsStart, exPc, exQuery,
          exReports, exNextID, exStartRow, exTickets, exWg, mu, exTasks, exDetail,
          exSummary, exResult, exFetches, exDropped, exClosed, exLate, exCtx, calls>>

(***************************************************************************)
(* The parts of the state a specification does not run.                    *)
(***************************************************************************)
EmptyDoc == [detail |-> <<>>, summary |-> <<>>]
NoResult == [has |-> FALSE, err |-> FALSE, doc |-> EmptyDoc]
NoReports == [cat |-> <<>>, sup |-> <<>>, pri |-> <<>>]

ExcelFresh ==
    /\ exReports = NoReports
    /\ exNextID = <<>>
    /\ exStartRow = 0
    /\ exTickets = <<>>
    /\ exWg = 0
    /\ mu = "free"
    /\ exTasks = <<>>
    /\ exDetail = <<>>
    /\ exSummary = <<>>
    /\ exResult = NoResult
    /\ exFetches = 0
    /\ exDropped = 0
    /\ exClosed = FALSE
    /\ exLate = FALSE
    /\ exCtx = "live"

ExcelIdle ==
    /\ exPc = "idle"
    /\ exQuery = [Category |-> "", nextID |-> <<>>]
    /\ ExcelFresh

(***************************************************************************)
(* Calls of pager.Size, pager.EncodeCursor and pager.DecodeCursor.         *)
(***************************************************************************)
\* the bytes cursor IDs are drawn from: '1', '"', '\', '<', line feed and the
\* two bytes of U+00E9 (each ill-formed on its own)
IdAlphabet == {49, 34, 92, 60, 10, 195, 169}

IdStrings == UNION {[1..n -> IdAlphabet] : n \in 0..MaxIdLen}

\* the times cursors are drawn from; the last one is past the years JSON
\* can carry
CursorTimes ==
    {ZeroTime,
     MkTime(1900, 1, 1, 0, 0, 0, 0, 0),
     MkTime(2024, 3, 5, 7, 8, 9, 0, 0),
     MkTime(2024, 2, 29, 23, 59, 59, 120000000, 420),
     MkTime(1999, 12, 31, 0, 0, 0, 1, 0 - 330),
     MkTime(10000, 1, 1, 0, 0, 0, 0, 0)}

NoOut == [size |-> <<>>, size2 |-> <<>>, token |-> <<>>, dec |-> [err |-> FALSE, c |-> ZeroCursor]]

InitPager ==
    /\ pgPc \in {"size", "cursor"}
    /\ pgReq \in (IF pgPc = "size" THEN (0 - MaxNeg)..MaxSizeArg ELSE {0})
    /\ pgCur \in (IF pgPc = "cursor"
                  THEN {MkCursor(id, t) : id \in IdStrings, t \in CursorTimes}
                  ELSE {ZeroCursor})
    /\ pgOut = NoOut
    /\ db = {}
    /\ lsPc = "idle"
    /\ lsQuery = MkTicketQuery("", ToUint64(0), <<>>)
    /\ lsPages = <<>>
    /\ lsStart = db
    /\ ExcelIdle
    /\ calls = <<>>

\* Size(uint64(n)) for the requested n
CallSize ==
    /\ pgPc = "size"
    /\ pgOut' = [pgOut EXCEPT !.size = Size(ToUint64(pgReq))]
    /\ pgPc' = "sized"
    /\ UNCHANGED <<pgReq, pgCur, db, listVars, excelVars>>

\* Size applied to its own result
CallSizeAgain ==
    /\ pgPc = "sized"
    /\ pgOut' = [pgOut EXCEPT !.size2 = Size(pgOut.size)]
    /\ pgPc' = "resized"
    /\ UNCHANGED <<pgReq, pgCur, db, listVars, excelVars>>

CallEncodeCursor ==
    /\ pgPc = "cursor"
    /\ pgOut' = [pgOut EXCEPT !.token = EncodeCursor(pgCur)]
    /\ pgPc' = "encoded"
    /\ UNCHANGED <<pgReq, pgCur, db, listVars, excelVars>>

CallDecodeCursor ==
    /\ pgPc = "encoded"
    /\ pgOut' = [pgOut EXCEPT !.dec = DecodeCursor(pgOut.token)]
    /\ pgPc' = "decoded"
    /\ UNCHANGED <<pgReq, pgCur, db, listVars, excelVars>>

NextPager ==
    \/ CallSize
    \/ CallSizeAgain
    \/ CallEncodeCursor
    \/ CallDecodeCursor

SpecPager == InitPager /\ [][NextPager]_vars

(***************************************************************************)
(* A walk over ListTickets: the first call carries no page token, each     *)
(* later call the nextPageToken of the call before it; the store does not  *)
(* change.                                                                 *)
(***************************************************************************)
\* the default page size, as a number of tickets
DefaultSize == U64ToInt(Size(ToUint64(0)))

\* small stores with every assignment of categories, and stores that fill
\* one and two pages of the default size
ListStores ==
    {StoreOf(n, net) : n \in 0..MaxTickets, net \in SUBSET (1..MaxTickets)}
    \cup {StoreOf(n, 1..n) : n \in {DefaultSize, DefaultSize + 1, 2 * DefaultSize}}

PageSizes == {ToUint64(n) : n \in (0..MaxPageSize) \cup {201}}

InitList ==
    /\ db \in ListStores
    /\ lsPc = "call"
    /\ lsQuery \in {MkTicketQuery(c, n, <<>>) : c \in {"", "Network"}, n \in PageSizes}
    /\ lsPages = <<>>
    /\ lsStart = db
    /\ pgPc = "idle"
    /\ pgReq = 0
    /\ pgCur = ZeroCursor
    /\ pgOut = NoOut
    /\ ExcelIdle
    /\ calls = <<>>

\* the caller keeps the page and takes up its nextPageToken
TakeUp(r) ==
    /\ lsPages' = Append(lsPages, r)
    /\ lsPc' = IF r.err THEN "failed"
               ELSE IF r.NextPageToken = <<>> THEN "done" ELSE "call"
    /\ lsQuery' = IF r.err THEN lsQuery
                  ELSE [lsQuery EXCEPT !.PageToken = r.NextPageToken]

\* a slip: the call removes from the store the rows it returned
ListTicketsCallConsuming ==
    /\ lsPc = "call"
    /\ \E ok \in BOOLEAN :
        /\ TakeUp(ListTickets(db, lsQuery, ok))
        /\ db' = {r \in db : \A j \in 1..Len(ListTickets(db, lsQuery, ok).Tickets) :
                                 ListTickets(db, lsQuery, ok).Tickets[j].ID # IdToStr(r.id)}
    /\ UNCHANGED <<lsStart, pagerVars, excelVars>>

\* one call of ListTickets and the caller taking up its nextPageToken
ListTicketsCall ==
    /\ lsPc = "call"
    /\ \E ok \in BOOLEAN : TakeUp(ListTickets(db, lsQuery, ok))
    /\ UNCHANGED <<db, lsStart, pagerVars, excelVars>>

NextList == ListTicketsCall

SpecList == InitList /\ [][NextList]_vars

(***************************************************************************)
(* Calls of ListTickets with page tokens the service did not issue.        *)
(***************************************************************************)
IssuedToken == EncodeCursor(MkCursor(<<51>>, MkTime(2024, 1, 4, 3, 0, 0, 0, 0)))

\* "%%" and "e30=" hold bytes outside the alphabet, "A" has a lone trailing
\* character, "YWJj" is no JSON, "eyJpZCI6NX0" is {"id":5}, and an issued
\* token cut short
ForeignTokens ==
    {<<37, 37>>, <<101, 51, 48, 61>>, <<65>>, <<89, 87, 74, 106>>,
     <<101, 121, 74, 112, 90, 67, 73, 54, 78, 88, 48>>,
     Take(IssuedToken, Len(IssuedToken) - 1),
     Take(IssuedToken, Len(IssuedToken) - 2),
     Take(IssuedToken, Len(IssuedToken) - 3)}

InitListTokens ==
    /\ db \in {StoreOf(n, net) : n \in 0..MaxTickets, net \in {{}, 1..MaxTickets}}
    /\ lsPc = "call"
    /\ lsQuery \in {MkTicketQuery(c, ToUint64(n), t) :
                       c \in {"", "Network"}, n \in 1..MaxPageSize,
                       t \in ForeignTokens \cup {IssuedToken, <<>>}}
    /\ lsPages = <<>>
    /\ lsStart = db
    /\ pgPc = "idle"
    /\ pgReq = 0
    /\ pgCur = ZeroCursor
    /\ pgOut = NoOut
    /\ ExcelIdle
    /\ calls = <<>>

SpecListTokens == InitListTokens /\ [][NextList]_vars

(***************************************************************************)
(* A walk over ListTickets while other clients add tickets: the view       *)
(* numbers a new ticket above every ticket it holds.                       *)
(***************************************************************************)
MaxId(rows) == IF rows = {} THEN 0 ELSE CHOOSE m \in {r.id : r \in rows} : \A r \in rows : r.id <= m

\* a ticket is inserted at the head of the view between two calls
InsertAtHead ==
    /\ lsPc = "call"
    /\ Cardinality(db \ lsStart) < MaxInserts
    /\ \E c \in {"Network", "Printer"} : db' = db \cup {MkRow(MaxId(db) + 1, c)}
    /\ UNCHANGED <<listVars, pagerVars, excelVars>>

NextListInserts ==
    \/ ListTicketsCall
    \/ InsertAtHead

SpecListInserts == InitList /\ [][NextListInserts]_vars

(***************************************************************************)
(* Properties of the list walk.                                            *)
(***************************************************************************)
RECURSIVE Concat(_)
\* the tickets of the pages, one after the other
Concat(pages) ==
    IF pages = <<>> THEN <<>> ELSE pages[1].Tickets \o Concat(Tail(pages))

\* the identifiers of the rows the query's filters select
MatchingIds == {r.id : r \in {x \in db : lsQuery.Category # "" => x.category = lsQuery.Category}}

EffectiveSize == U64ToInt(Size(lsQuery.PageSize))

WalkIds == [i \in 1..Len(Concat(lsPages)) |-> Num(Concat(lsPages)[i].ID)]

\* C1: walking from the empty token over a fixed record set returns every
\* matching record exactly once, in strictly descending identifier order; a
\* page shorter than the effective page size carries the empty token and ends
\* the walk, which takes at most N div S + 1 calls.
C1_WalkComplete ==
    (lsPc \in {"call", "done"}) =>
        /\ \A i \in 1..Len(WalkIds) : WalkIds[i] \in MatchingIds
        /\ \A i \in 1..(Len(WalkIds) - 1) : WalkIds[i] > WalkIds[i + 1]
        /\ \A i \in 1..Len(lsPages) :
            /\ Len(lsPages[i].Tickets) <= EffectiveSize
            /\ Len(lsPages[i].Tickets) < EffectiveSize =>
                   (lsPages[i].NextPageToken = <<>> /\ i = Len(lsPages) /\ lsPc = "done")
        /\ Len(lsPages) <= (Cardinality(MatchingIds) \div EffectiveSize) + 1
        /\ lsPc = "done" =>
            /\ {WalkIds[i] : i \in 1..Len(WalkIds)} = MatchingIds
            /\ Len(WalkIds) = Cardinality(MatchingIds)

\* the scenario of the specification: category Network, page size 2, five
\* matching rows, walked in three calls of 2, 2 and 1 tickets
C1_Witness ==
    /\ lsPc = "done"
    /\ lsQuery.Category = "Network"
    /\ lsQuery.PageSize = ToUint64(2)
    /\ Cardinality(MatchingIds) = 5
    /\ Len(lsPages) = 3
    /\ Len(lsPages[1].Tickets) = 2 /\ lsPages[1].NextPageToken # <<>>
    /\ Len(lsPages[2].Tickets) = 2 /\ lsPages[2].NextPageToken # <<>>
    /\ Len(lsPages[3].Tickets) = 1 /\ lsPages[3].NextPageToken = <<>>

(***************************************************************************)
(* One call of Service.GenExcel with its writer goroutines.                *)
(***************************************************************************)
\* the store of n rows whose newest row holds no status and no priority
WithNullHead(n) ==
    {IF r.id = n THEN NullColumns(r) ELSE r : r \in StoreOf(n, {id \in 1..n : id % 2 = 1})}

\* a store with a ticket whose category is the empty string
BlankCategoryStore == {MkRow(1, ""), MkRow(2, "Network"), MkRow(3, "")}

\* stores whose odd identifiers are of category Network
ExcelStores ==
    {StoreOf(n, {id \in 1..n : id % 2 = 1}) : n \in 0..MaxExcelTickets}
    \cup {WithNullHead(n) : n \in 1..MaxExcelTickets}
    \cup {BlankCategoryStore}

InitExcel ==
    /\ db \in ExcelStores
    /\ exPc = "catReport"
    /\ exQuery \in {MkBatchQuery(c, <<>>) : c \in {"", "Network"}}
    /\ ExcelFresh
    /\ calls = <<>>
    /\ pgPc = "idle"
    /\ pgReq = 0
    /\ pgCur = ZeroCursor
    /\ pgOut = NoOut
    /\ lsPc = "idle"
    /\ lsQuery = MkTicketQuery("", ToUint64(0), <<>>)
    /\ lsPages = <<>>
    /\ lsStart = db

\* db.QueryContext answers or fails; on a cancelled context it fails
QueryOutcomes == IF exCtx = "cancelled" THEN {FALSE} ELSE BOOLEAN

ErrResult == [has |-> FALSE, err |-> TRUE, doc |-> EmptyDoc]

\* lines 22-29: the category report, or return nil, err
FetchCategoryReports ==
    /\ exPc = "catReport"
    /\ \E ok \in QueryOutcomes :
        LET r == listCategoryReports(db, ok)
        IN  IF r.err
            THEN exPc' = "returned" /\ exResult' = ErrResult /\ UNCHANGED exReports
            ELSE /\ exPc' = "supReport"
                 /\ exReports' = [exReports EXCEPT !.cat = r.reports]
                 /\ UNCHANGED exResult
    /\ UNCHANGED <<exQuery, exNextID, exStartRow, exTickets, exWg, mu, exTasks, exDetail,
                   exSummary, exFetches, exDropped, exClosed, exLate, db, calls, pagerVars,
                   listVars, exCtx>>

\* lines 31-38
FetchSupporterReports ==
    /\ exPc = "supReport"
    /\ \E ok \in QueryOutcomes :
        LET r == listSupporterReports(db, ok)
        IN  IF r.err
            THEN exPc' = "returned" /\ exResult' = ErrResult /\ UNCHANGED exReports
            ELSE /\ exPc' = "priReport"
                 /\ exReports' = [exReports EXCEPT !.sup = r.reports]
                 /\ UNCHANGED exResult
    /\ UNCHANGED <<exQuery, exNextID, exStartRow, exTickets, exWg, mu, exTasks, exDetail,
                   exSummary, exFetches, exDropped, exClosed, exLate, db, calls, pagerVars,
                   listVars, exCtx>>

\* lines 40-47
FetchPriorityReports ==
    /\ exPc = "priReport"
    /\ \E ok \in QueryOutcomes :
        LET r == listPriorityReports(db, ok)
        IN  IF r.err
            THEN exPc' = "returned" /\ exResult' = ErrResult /\ UNCHANGED exReports
            ELSE /\ exPc' = "newFile"
                 /\ exReports' = [exReports EXCEPT !.pri = r.reports]
                 /\ UNCHANGED exResult
    /\ UNCHANGED <<exQuery, exNextID, exStartRow, exTickets, exWg, mu, exTasks, exDetail,
                   exSummary, exFetches, exDropped, exClosed, exLate, db, calls, pagerVars,
                   listVars, exCtx>>

\* a write of the goroutine running GenExcel
MainWrite(what) == [w |-> 0, v |-> what]

\* lines 49-106: the file, its style, the header row of the detail sheet, the
\* summary sheet and its first row; NewStyle or NewSheet may fail, and the
\* deferred Close runs at the return
NewFile ==
    /\ exPc = "newFile"
    /\ \E ok \in BOOLEAN :
        IF ~ok
        THEN /\ exPc' = "returned" /\ exResult' = ErrResult /\ exClosed' = TRUE
             /\ UNCHANGED <<exDetail, exSummary>>
        ELSE /\ exPc' = "catHeader"
             /\ exDetail' = Put(exDetail, 1, MainWrite("header"))
             /\ exSummary' = Put(exSummary, 1, MainWrite("Date update"))
             /\ UNCHANGED <<exResult, exClosed>>
    /\ UNCHANGED <<exQuery, exReports, exNextID, exStartRow, exTickets, exWg, mu, exTasks,
                   exFetches, exDropped, exLate, db, calls, pagerVars, listVars, exCtx>>

startSupporterReportRow == 10 + startCategoryReportRow + Len(exReports.cat)
startPriorityReportRow == 10 + startSupporterReportRow + Len(exReports.sup)

\* lines 108-117: the header of the category table, wg.Add(1), go
CategoryHeader ==
    /\ exPc = "catHeader"
    /\ exSummary' = Put(exSummary, startCategoryReportRow, MainWrite("category header"))
    /\ exWg' = exWg + 1
    /\ exTasks' = Append(exTasks, MkTask("category", startCategoryReportRow, exReports.cat))
    /\ exPc' = "supHeader"
    /\ UNCHANGED <<exQuery, exReports, exNextID, exStartRow, exTickets, mu, exDetail,
                   exResult, exFetches, exDropped, exClosed, exLate, db, calls, pagerVars,
                   listVars, exCtx>>

\* lines 119-127
SupporterHeader ==
    /\ exPc = "supHeader"
    /\ exSummary' = Put(exSummary, startSupporterReportRow, MainWrite("supporter header"))
    /\ exWg' = exWg + 1
    /\ exTasks' = Append(exTasks, MkTask("supporter", startSupporterReportRow, exReports.sup))
    /\ exPc' = "priHeader"
    /\ UNCHANGED <<exQuery, exReports, exNextID, exStartRow, exTickets, mu, exDetail,
                   exResult, exFetches, exDropped, exClosed, exLate, db, calls, pagerVars,
                   listVars, exCtx>>

\* lines 129-141: the priority table, then startTicketsRow := 2 and nextID
PriorityHeader ==
    /\ exPc = "priHeader"
    /\ exSummary' = Put(exSummary, startPriorityReportRow, MainWrite("priority header"))
    /\ exWg' = exWg + 1
    /\ exTasks' = Append(exTasks, MkTask("priority", startPriorityReportRow, exReports.pri))
    /\ exStartRow' = 2
    /\ exNextID' = <<>>
    /\ exPc' = "fetch"
    /\ UNCHANGED <<exQuery, exReports, exTickets, mu, exDetail, exResult, exFetches,
                   exDropped, exClosed, exLate, db, calls, pagerVars, listVars, exCtx>>

\* lines 143-151: one batch; an error returns nil, err (and closes the file),
\* an empty page leaves the loop
BatchFetch ==
    /\ exPc = "fetch"
    /\ \E ok \in QueryOutcomes :
        LET r == batchGetTickets(db, BatchSize, exNextID, exQuery, ok)
        IN  /\ exQuery' = r.in
            /\ exFetches' = exFetches + 1
            /\ IF r.err
               THEN /\ exPc' = "returned" /\ exResult' = ErrResult /\ exClosed' = TRUE
                    /\ UNCHANGED exTickets
               ELSE /\ exTickets' = r.tickets
                    /\ exPc' = IF LoopEnds(r.tickets) THEN "wait" ELSE "lock"
                    /\ UNCHANGED <<exResult, exClosed>>
    /\ UNCHANGED <<exReports, exNextID, exStartRow, exWg, mu, exTasks, exDetail, exSummary,
                   exDropped, exLate, db, calls, pagerVars, listVars, exCtx>>

\* a slip: the loop goes on to the assignment without taking the mutex
LockMuSkipped ==
    /\ exPc = "lock"
    /\ exPc' = "advance"
    /\ UNCHANGED <<exQuery, exReports, exNextID, exStartRow, exTickets, exWg, mu, exTasks,
                   exDetail, exSummary, exResult, exFetches, exDropped, exClosed, exLate,
                   db, calls, pagerVars, listVars, exCtx>>

\* line 153: s.mu.Lock()
LockMu ==
    /\ exPc = "lock"
    /\ mu = "free"
    /\ mu' = "held"
    /\ exPc' = "advance"
    /\ UNCHANGED <<exQuery, exReports, exNextID, exStartRow, exTickets, exWg, exTasks,
                   exDetail, exSummary, exResult, exFetches, exDropped, exClosed, exLate,
                   db, calls, pagerVars, listVars, exCtx>>

\* a slip: the mutex is released without the cursor having moved
AdvanceCursorStalled ==
    /\ exPc = "advance"
    /\ mu' = "free"
    /\ exPc' = "dispatch"
    /\ UNCHANGED <<exQuery, exReports, exNextID, exStartRow, exTickets, exWg, exTasks,
                   exDetail, exSummary, exResult, exFetches, exDropped, exClosed, exLate,
                   db, calls, pagerVars, listVars, exCtx>>

\* lines 154-155: nextID = tickets[len(tickets)-1].ID; s.mu.Unlock()
AdvanceCursor ==
    /\ exPc = "advance"
    /\ exNextID' = exTickets[Len(exTickets)].ID
    /\ mu' = "free"
    /\ exPc' = "dispatch"
    /\ UNCHANGED <<exQuery, exReports, exStartRow, exTickets, exWg, exTasks, exDetail,
                   exSummary, exResult, exFetches, exDropped, exClosed, exLate, db,
                   calls, pagerVars, listVars, exCtx>>

\* lines 157-160: wg.Add(1), go genTicketsToExcel with the current row
\* offset, then the offset moves on
Dispatch ==
    /\ exPc = "dispatch"
    /\ exWg' = exWg + 1
    /\ exTasks' = Append(exTasks, MkTask("tickets", exStartRow, exTickets))
    /\ exStartRow' = NextStartRow(exStartRow, exTickets)
    /\ exPc' = "fetch"
    /\ UNCHANGED <<exQuery, exReports, exNextID, exTickets, mu, exDetail, exSummary,
                   exResult, exFetches, exDropped, exClosed, exLate, db, calls, pagerVars,
                   listVars, exCtx>>

\* line 163: wg.Wait()
Wait ==
    /\ exPc = "wait"
    /\ WaitReturns(exWg)
    /\ exPc' = "serialize"
    /\ UNCHANGED <<exQuery, exReports, exNextID, exStartRow, exTickets, exWg, mu, exTasks,
                   exDetail, exSummary, exResult, exFetches, exDropped, exClosed, exLate,
                   db, calls, pagerVars, listVars, exCtx>>

\* lines 165-171: WriteToBuffer renders the document as it is now
Serialize ==
    /\ exPc = "serialize"
    /\ \E ok \in BOOLEAN :
        exResult' = IF ok
                    THEN [has |-> TRUE, err |-> FALSE,
                          doc |-> [detail |-> exDetail, summary |-> exSummary]]
                    ELSE ErrResult
    /\ exClosed' = TRUE
    /\ exPc' = "returned"
    /\ UNCHANGED <<exQuery, exReports, exNextID, exStartRow, exTickets, exWg, mu, exTasks,
                   exDetail, exSummary, exFetches, exDropped, exLate, db, calls, pagerVars,
                   listVars, exCtx>>

\* genTicketsToExcel, one ticket: the fifteen SetCellValue calls of its row;
\* their errors are not looked at
WriteTicketRow ==
    \E k \in 1..Len(exTasks) :
        LET t == exTasks[k]
            row == TicketRow(t.startRow, t.i)
        IN  /\ t.kind = "tickets"
            /\ t.i < Len(t.items)
            /\ IF SetCellValueOk(row)
               THEN /\ exDetail' = Put(exDetail, row, [w |-> k, v |-> TicketCells(t.items[t.i + 1])])
                    /\ UNCHANGED exDropped
               ELSE /\ exDropped' = exDropped + 1
                    /\ UNCHANGED exDetail
            /\ exTasks' = [exTasks EXCEPT ![k].i = @ + 1]
            /\ exLate' = (exLate \/ exClosed)
            /\ UNCHANGED <<exPc, exQuery, exReports, exNextID, exStartRow, exTickets, exWg,
                           mu, exSummary, exResult, exFetches, exClosed, db, calls, pagerVars,
                           listVars, exCtx>>

\* genCategoryReportToExcel, genSupporterReportToExcel and
\* genPriorityReportToExcel, one report row
WriteSummaryRow ==
    \E k \in 1..Len(exTasks) :
        LET t == exTasks[k]
        IN  /\ t.kind \in {"category", "supporter", "priority"}
            /\ t.i < Len(t.items)
            /\ exSummary' = Put(exSummary, SummaryRow(t.startRow, t.i),
                                [w |-> k, v |-> t.items[t.i + 1]])
            /\ exTasks' = [exTasks EXCEPT ![k].i = @ + 1]
            /\ exLate' = (exLate \/ exClosed)
            /\ UNCHANGED <<exPc, exQuery, exReports, exNextID, exStartRow, exTickets, exWg,
                           mu, exDetail, exResult, exFetches, exDropped, exClosed, db,
                           calls, pagerVars, listVars, exCtx>>

\* the deferred wg.Done() of a writer whose loop has ended
WriterDone ==
    \E k \in 1..Len(exTasks) :
        /\ exTasks[k].i = Len(exTasks[k].items)
        /\ ~exTasks[k].done
        /\ exTasks' = [exTasks EXCEPT ![k].done = TRUE]
        /\ exWg' = exWg - 1
        /\ UNCHANGED <<exPc, exQuery, exReports, exNextID, exStartRow, exTickets, mu,
                       exDetail, exSummary, exResult, exFetches, exDropped, exClosed,
                       exLate, db, calls, pagerVars, listVars, exCtx>>

NextExcel ==
    \/ FetchCategoryReports
    \/ FetchSupporterReports
    \/ FetchPriorityReports
    \/ NewFile
    \/ CategoryHeader
    \/ SupporterHeader
    \/ PriorityHeader
    \/ BatchFetch
    \/ LockMu
    \/ AdvanceCursor
    \/ Dispatch
    \/ Wait
    \/ Serialize
    \/ WriteTicketRow
    \/ WriteSummaryRow
    \/ WriterDone

SpecExcel == InitExcel /\ [][NextExcel]_vars

\* the caller cancels the context of a running GenExcel
Cancel ==
    /\ exPc \notin {"idle", "returned"}
    /\ exCtx = "live"
    /\ exCtx' = "cancelled"
    /\ UNCHANGED <<exPc, exQuery, exReports, exNextID, exStartRow, exTickets, exWg, mu,
                   exTasks, exDetail, exSummary, exResult, exFetches, exDropped, exClosed,
                   exLate, db, calls, pagerVars, listVars>>

NextExcelCancel ==
    \/ NextExcel
    \/ Cancel

SpecExcelCancel == InitExcel /\ [][NextExcelCancel]_vars

(***************************************************************************)
(* The service answering list requests and an export request over one      *)
(* store.                                                                  *)
(***************************************************************************)
CoreStores ==
    {StoreOf(n, {id \in 1..n : id % 2 = 1}) : n \in 0..MaxCoreTickets}
    \cup {WithNullHead(MaxCoreTickets)}

InitCore ==
    /\ db \in CoreStores
    /\ lsPc = "call"
    /\ lsQuery \in {MkTicketQuery(c, ToUint64(2), <<>>) : c \in {"", "Network"}}
    /\ lsPages = <<>>
    /\ lsStart = db
    /\ pgPc = "idle"
    /\ pgReq = 0
    /\ pgCur = ZeroCursor
    /\ pgOut = NoOut
    /\ ExcelIdle
    /\ calls = <<>>

\* the export request arrives
StartGenExcel ==
    /\ exPc = "idle"
    /\ exPc' = "catReport"
    /\ exQuery' \in {MkBatchQuery(c, <<>>) : c \in {"", "Network"}}
    /\ UNCHANGED <<exReports, exNextID, exStartRow, exTickets, exWg, mu, exTasks, exDetail,
                   exSummary, exResult, exFetches, exDropped, exClosed, exLate, db,
                   calls, pagerVars, listVars, exCtx>>

NextCore ==
    \/ ListTicketsCall
    \/ StartGenExcel
    \/ NextExcel

SpecCore == InitCore /\ [][NextCore]_vars

(***************************************************************************)
(* GenExcel with goroutines that are scheduled: the goroutine of GenExcel  *)
(* and the writers each take their next step when they have one.           *)
(***************************************************************************)
InitExcelFair ==
    /\ InitExcel
    /\ db \in CoreStores

\* the steps of the goroutine that runs GenExcel
GenExcelThread ==
    \/ FetchCategoryReports
    \/ FetchSupporterReports
    \/ FetchPriorityReports
    \/ NewFile
    \/ CategoryHeader
    \/ SupporterHeader
    \/ PriorityHeader
    \/ BatchFetch
    \/ LockMu
    \/ AdvanceCursor
    \/ Dispatch
    \/ Wait
    \/ Serialize

\* the steps of the writer goroutines
WriterThreads ==
    \/ WriteTicketRow
    \/ WriteSummaryRow
    \/ WriterDone

SpecExcelFair ==
    /\ InitExcelFair
    /\ [][NextExcel]_vars
    /\ WF_vars(GenExcelThread)
    /\ WF_vars(WriterThreads)

(***************************************************************************)
(* Two calls of GenExcel running on one Service.  Each call has its own    *)
(* query, its own locals (nextID, startTicketsRow, tickets, wg) and its    *)
(* own file fx; the calls share s.db and s.mu.  A writer goroutine touches  *)
(* only the file and the WaitGroup of its call, so its loop is one step.   *)
(***************************************************************************)
CallIds == {1, 2}

\* a call that has just entered GenExcel
NewCall(category) ==
    [pc |-> "reports",
     in |-> MkBatchQuery(category, <<>>),
     reports |-> NoReports,
     nextID |-> <<>>,
     startRow |-> 0,
     tickets |-> <<>>,
     wg |-> 0,
     tasks |-> <<>>,
     detail |-> <<>>,
     summary |-> <<>>,
     result |-> NoResult]

\* both calls read one store; its odd identifiers are of category Network
InitCalls ==
    /\ db = StoreOf(MaxCallTickets, {id \in 1..MaxCallTickets : id % 2 = 1})
    /\ calls \in [CallIds -> {NewCall(c) : c \in {"", "Network"}}]
    /\ ExcelIdle
    /\ pgPc = "idle"
    /\ pgReq = 0
    /\ pgCur = ZeroCursor
    /\ pgOut = NoOut
    /\ lsPc = "idle"
    /\ lsQuery = MkTicketQuery("", ToUint64(0), <<>>)
    /\ lsPages = <<>>
    /\ lsStart = db

\* what a step of a call leaves alone, the mutex aside
CallFrame ==
    UNCHANGED <<db, pagerVars, listVars, exPc, exQuery, exReports, exNextID, exStartRow,
                exTickets, exWg, exTasks, exDetail, exSummary, exResult, exFetches,
                exDropped, exClosed, exLate, exCtx>>

\* return nil, err
CallFailed(call) == [call EXCEPT !.pc = "returned", !.result = ErrResult]

\* the call after its three report queries answered
CallWithReports(call, rows) ==
    [call EXCEPT !.pc = "file",
                 !.reports = [cat |-> listCategoryReports(rows, TRUE).reports,
                              sup |-> listSupporterReports(rows, TRUE).reports,
                              pri |-> listPriorityReports(rows, TRUE).reports]]

\* lines 22-47: the three aggregate reports; a failed query returns nil, err
CallFetchReports(c) ==
    /\ calls[c].pc = "reports"
    /\ \E ok \in BOOLEAN :
        calls' = [calls EXCEPT ![c] = IF ok THEN CallWithReports(@, db) ELSE CallFailed(@)]
    /\ UNCHANGED mu
    /\ CallFrame

\* the call with its file, the headers of its sheets, its three report
\* writers started, startTicketsRow := 2 and nextID
CallOpened(call) ==
    [call EXCEPT !.pc = "fetch",
                 !.detail = Put(<<>>, 1, MainWrite("header")),
                 !.summary =
                     Put(Put(Put(Put(<<>>, 1, MainWrite("Date update")),
                                 startCategoryReportRow, MainWrite("category header")),
                             10 + startCategoryReportRow + Len(call.reports.cat),
                             MainWrite("supporter header")),
                         20 + startCategoryReportRow + Len(call.reports.cat)
                            + Len(call.reports.sup),
                         MainWrite("priority header")),
                 !.wg = 3,
                 !.tasks = <<MkTask("category", startCategoryReportRow, call.reports.cat),
                             MkTask("supporter",
                                    10 + startCategoryReportRow + Len(call.reports.cat),
                                    call.reports.sup),
                             MkTask("priority",
                                    20 + startCategoryReportRow + Len(call.reports.cat)
                                       + Len(call.reports.sup),
                                    call.reports.pri)>>,
                 !.startRow = 2,
                 !.nextID = <<>>]

\* lines 49-141: NewStyle or NewSheet may fail
CallNewFile(c) ==
    /\ calls[c].pc = "file"
    /\ \E ok \in BOOLEAN :
        calls' = [calls EXCEPT ![c] = IF ok THEN CallOpened(@) ELSE CallFailed(@)]
    /\ UNCHANGED mu
    /\ CallFrame

\* what the call is after batchGetTickets answered with r
CallFetched(call, r) ==
    IF r.err THEN [CallFailed(call) EXCEPT !.in = r.in]
    ELSE [call EXCEPT !.in = r.in,
                      !.tickets = r.tickets,
                      !.pc = IF LoopEnds(r.tickets) THEN "wait" ELSE "lock"]

\* a slip: the cursor of the other call is passed to batchGetTickets
CallBatchFetchShared(c) ==
    /\ calls[c].pc = "fetch"
    /\ \E ok \in BOOLEAN :
        calls' = [calls EXCEPT ![c] =
            CallFetched(@, batchGetTickets(db, BatchSize, calls[3 - c].nextID, @.in, ok))]
    /\ UNCHANGED mu
    /\ CallFrame

\* lines 143-151: one batch of the call, fetched with the cursor of the call
CallBatchFetch(c) ==
    /\ calls[c].pc = "fetch"
    /\ \E ok \in BOOLEAN :
        calls' = [calls EXCEPT ![c] =
            CallFetched(@, batchGetTickets(db, BatchSize, @.nextID, @.in, ok))]
    /\ UNCHANGED mu
    /\ CallFrame

\* line 153: s.mu.Lock() blocks while the other call holds the mutex
CallLockMu(c) ==
    /\ calls[c].pc = "lock"
    /\ mu = "free"
    /\ mu' = "held"
    /\ calls' = [calls EXCEPT ![c].pc = "advance"]
    /\ CallFrame

\* nextID = tickets[len(tickets)-1].ID
CallAdvanced(call) ==
    [call EXCEPT !.pc = "dispatch", !.nextID = call.tickets[Len(call.tickets)].ID]

\* lines 154-155: the assignment, then s.mu.Unlock()
CallAdvanceCursor(c) ==
    /\ calls[c].pc = "advance"
    /\ mu' = "free"
    /\ calls' = [calls EXCEPT ![c] = CallAdvanced(@)]
    /\ CallFrame

\* wg.Add(1), go genTicketsToExcel, startTicketsRow += len(tickets)
CallDispatched(call) ==
    [call EXCEPT !.pc = "fetch",
                 !.wg = @ + 1,
                 !.tasks = Append(@, MkTask("tickets", call.startRow, call.tickets)),
                 !.startRow = NextStartRow(@, call.tickets)]

\* lines 157-160
CallDispatch(c) ==
    /\ calls[c].pc = "dispatch"
    /\ calls' = [calls EXCEPT ![c] = CallDispatched(@)]
    /\ UNCHANGED mu
    /\ CallFrame

\* line 163: wg.Wait() on the WaitGroup of the call
CallWait(c) ==
    /\ calls[c].pc = "wait"
    /\ WaitReturns(calls[c].wg)
    /\ calls' = [calls EXCEPT ![c].pc = "serialize"]
    /\ UNCHANGED mu
    /\ CallFrame

\* lines 165-171: WriteToBuffer on the file of the call
CallSerialize(c) ==
    /\ calls[c].pc = "serialize"
    /\ \E ok \in BOOLEAN :
        calls' = [calls EXCEPT ![c] =
            IF ~ok THEN CallFailed(@)
            ELSE [@ EXCEPT !.pc = "returned",
                           !.result = [has |-> TRUE, err |-> FALSE,
                                       doc |-> [detail |-> calls[c].detail,
                                                summary |-> calls[c].summary]]]]
    /\ UNCHANGED mu
    /\ CallFrame

\* the sheet after the writer k has written the items from the i-th on
RECURSIVE WriteItems(_, _, _, _)
WriteItems(sheet, t, k, i) ==
    IF i >= Len(t.items) THEN sheet
    ELSE IF t.kind = "tickets"
    THEN WriteItems(IF SetCellValueOk(TicketRow(t.startRow, i))
                    THEN Put(sheet, TicketRow(t.startRow, i),
                             [w |-> k, v |-> TicketCells(t.items[i + 1])])
                    ELSE sheet,
                    t, k, i + 1)
    ELSE WriteItems(Put(sheet, SummaryRow(t.startRow, i), [w |-> k, v |-> t.items[i + 1]]),
                    t, k, i + 1)

\* the call after its writer k has run to its wg.Done()
CallWritten(call, k) ==
    [call EXCEPT !.tasks[k].i = Len(call.tasks[k].items),
                 !.tasks[k].done = TRUE,
                 !.wg = @ - 1,
                 !.detail = IF call.tasks[k].kind = "tickets"
                            THEN WriteItems(@, call.tasks[k], k, 0) ELSE @,
                 !.summary = IF call.tasks[k].kind = "tickets"
                             THEN @ ELSE WriteItems(@, call.tasks[k], k, 0)]

\* a writer goroutine of the call: its rows, then the deferred wg.Done()
CallWriter(c) ==
    /\ \E k \in 1..Len(calls[c].tasks) :
        /\ ~calls[c].tasks[k].done
        /\ calls' = [calls EXCEPT ![c] = CallWritten(@, k)]
    /\ UNCHANGED mu
    /\ CallFrame

\* the steps of the goroutine running the call c
CallThread(c) ==
    \/ CallFetchReports(c)
    \/ CallNewFile(c)
    \/ CallBatchFetch(c)
    \/ CallLockMu(c)
    \/ CallAdvanceCursor(c)
    \/ CallDispatch(c)
    \/ CallWait(c)
    \/ CallSerialize(c)

NextCalls == \E c \in CallIds : CallThread(c) \/ CallWriter(c)

\* the goroutines of each call are scheduled: a call that has a goroutine
\* able to run does not stand still for ever
SpecCalls ==
    /\ InitCalls
    /\ [][NextCalls]_vars
    /\ \A c \in CallIds : WF_vars(CallThread(c) \/ CallWriter(c))

\* GenExcel run by itself, its goroutines one after the other: the loop
\* of lines 142-161 with no failing query
RECURSIVE AloneLoop(_, _)
AloneLoop(call, rows) ==
    IF CallFetched(call, batchGetTickets(rows, BatchSize, call.nextID, call.in, TRUE)).pc = "lock"
    THEN AloneLoop(CallDispatched(CallAdvanced(
             CallFetched(call, batchGetTickets(rows, BatchSize, call.nextID, call.in, TRUE)))),
             rows)
    ELSE CallFetched(call, batchGetTickets(rows, BatchSize, call.nextID, call.in, TRUE))

\* the writers from the k-th on, in the order of their go statements
RECURSIVE AloneWriters(_, _)
AloneWriters(call, k) ==
    IF k > Len(call.tasks) THEN call ELSE AloneWriters(CallWritten(call, k), k + 1)

\* the call run alone, with nothing failing, up to its wg.Wait(): its
\* locals and the sheets of the document it returns
GenExcelAlone(rows, category) ==
    AloneWriters(AloneLoop(CallOpened(CallWithReports(NewCall(category), rows)), rows), 1)

\* C11: a page returned by ListTickets carries a non-empty nextPageToken if
\* and only if its length equals the effective page size Size(PageSize);
\* the token then decodes to the identifier and the creation time of the
\* page's last record.
C11_TokenIffFull ==
    \A i \in 1..Len(lsPages) :
        ~lsPages[i].err =>
            /\ lsPages[i].NextPageToken # <<>> <=> Len(lsPages[i].Tickets) = EffectiveSize
            /\ Len(lsPages[i].Tickets) = EffectiveSize =>
                DecodeCursor(lsPages[i].NextPageToken) =
                    [err |-> FALSE,
                     c |-> MkCursor(lsPages[i].Tickets[EffectiveSize].ID,
                                    lsPages[i].Tickets[EffectiveSize].CreatedAt)]

\* a full page of the default size with its token, then a short page with
\* records and no token
C11_Witness ==
    /\ Len(lsPages) = 2
    /\ lsQuery.PageSize = ToUint64(0)
    /\ Len(lsPages[1].Tickets) = DefaultSize /\ lsPages[1].NextPageToken # <<>>
    /\ Len(lsPages[2].Tickets) = 1 /\ lsPages[2].NextPageToken = <<>>
    /\ ~lsPages[2].err

\* the documented table of raw status strings and their normalized values
StatusTable ==
    {<<"PENDING", "PENDING">>,
     <<"FINISHED,MANAGER(APPROVE),IT(PENDING)", "PENDING">>,
     <<"FINISHED,MANAGER(APPROVE),IT(CANCEL)", "CANCELED">>,
     <<"FINISHED,MANAGER(APPROVE),IT(IN PROGRESS)", "IN_PROGRESS">>,
     <<"REQUEST", "REQUEST">>,
     <<"FINISHED,MANAGER(APPROVE),IT(RESOLVE)", "RESOLVED">>,
     <<"FINISHED,MANAGER(APPROVE),IT(SENDING)", "SENDING">>,
     <<"FINISHED,MANAGER(APPROVE),IT(REPENDING)", "RE_PENDING">>,
     <<"REJECT,MANAGER(REJECT)", "REJECTED">>}

NormalStatuses ==
    {"PENDING", "CANCELED", "IN_PROGRESS", "REQUEST", "RESOLVED", "SENDING", "RE_PENDING",
     "REJECTED"}

DocumentedStatus(raw) ==
    IF \E p \in StatusTable : p[1] = raw
    THEN (CHOOSE p \in StatusTable : p[1] = raw)[2]
    ELSE "PENDING"

RowOfId(id) == CHOOSE r \in db : r.id = id

\* C12: status normalization is total.  Every raw status of the store maps,
\* under mapTicketStatus and under mapStatus, to its documented value when
\* the table knows it and to PENDING when it does not; the status of every
\* listed ticket is that value and is one of the eight normalized statuses.
C12_StatusTotal ==
    /\ \A r \in db :
        /\ mapTicketStatus(r.status) = DocumentedStatus(r.status)
        /\ mapStatus(r.status) = DocumentedStatus(r.status)
        /\ mapTicketStatus(r.status) \in NormalStatuses
    /\ \A i \in 1..Len(lsPages) : \A j \in 1..Len(lsPages[i].Tickets) :
        /\ lsPages[i].Tickets[j].Status \in NormalStatuses
        /\ lsPages[i].Tickets[j].Status =
               DocumentedStatus(RowOfId(Num(lsPages[i].Tickets[j].ID)).status)

\* a listed page holds a rejected ticket and tickets whose raw statuses
\* ("DRAFT", the empty string) are outside the table
C12_Witness ==
    \E i \in 1..Len(lsPages) : \E j, k, m \in 1..Len(lsPages[i].Tickets) :
        /\ RowOfId(Num(lsPages[i].Tickets[j].ID)).status = "REJECT,MANAGER(REJECT)"
        /\ lsPages[i].Tickets[j].Status = "REJECTED"
        /\ RowOfId(Num(lsPages[i].Tickets[k].ID)).status = "DRAFT"
        /\ lsPages[i].Tickets[k].Status = "PENDING"
        /\ RowOfId(Num(lsPages[i].Tickets[m].ID)).status = ""
        /\ lsPages[i].Tickets[m].Status = "PENDING"

\* the closed date of every listed ticket whose row holds the sentinel is
\* the zero time
ListClosedDateAbsent ==
    \A i \in 1..Len(lsPages) : \A j \in 1..Len(lsPages[i].Tickets) :
        RowOfId(Num(lsPages[i].Tickets[j].ID)).closed_date = SentinelDate =>
            lsPages[i].Tickets[j].ClosedDate = ZeroTime

\* the closed-date cell of every exported ticket whose row holds the
\* sentinel is empty
ExportClosedDateAbsent ==
    \A r \in DOMAIN exDetail \ {1} : \A k \in 1..Len(exDetail[r]) :
        RowOfId(Num(exDetail[r][k].v.ID)).closed_date = SentinelDate =>
            exDetail[r][k].v.ClosedDate = <<>>

\* C14 (as stated): a record whose closed date is the sentinel 1900-01-01
\* has an absent closed date in the result of ListTickets and an empty
\* closed-date cell in the exported document.
C14_SentinelAbsent == ListClosedDateAbsent /\ ExportClosedDateAbsent

\* C14: ListTickets has returned a ticket whose row holds the sentinel
C14_Witness ==
    \E i \in 1..Len(lsPages) : \E j \in 1..Len(lsPages[i].Tickets) :
        /\ RowOfId(Num(lsPages[i].Tickets[j].ID)).closed_date = SentinelDate
        /\ lsPages[i].Tickets[j].ClosedDate = SentinelDate

\* the identifiers of the matching records the store held when the walk
\* started
StartMatchingIds ==
    {r.id : r \in {x \in lsStart : lsQuery.Category # "" => x.category = lsQuery.Category}}

\* C15: with tickets inserted at the head of the view between the calls of
\* a walk, no record is returned twice (the identifiers of the walk strictly
\* descend and are records of the store), and when the walk ends every
\* record the store held at its start has been returned.
C15_StableUnderHeadInserts ==
    (lsPc \in {"call", "done"}) =>
        /\ \A i \in 1..Len(WalkIds) : WalkIds[i] \in MatchingIds
        /\ \A i \in 1..(Len(WalkIds) - 1) : WalkIds[i] > WalkIds[i + 1]
        /\ lsPc = "done" => StartMatchingIds \subseteq {WalkIds[i] : i \in 1..Len(WalkIds)}

\* a walk of three pages has ended, two matching tickets having been
\* inserted after its first page
C15_Witness ==
    /\ lsPc = "done"
    /\ Len(lsPages) = 3
    /\ Cardinality(StartMatchingIds) >= 3
    /\ Cardinality(MatchingIds \ StartMatchingIds) = MaxInserts
    /\ \A id \in MatchingIds \ StartMatchingIds : \A i \in 1..Len(WalkIds) : WalkIds[i] # id

\* C16: a call of ListTickets whose page token is not empty and fails to
\* decode returns an error with no records and no next token, and the store
\* is not queried.
C16_InvalidTokenFails ==
    [][(lsPc = "call" /\ lsQuery.PageToken # <<>> /\ DecodeCursor(lsQuery.PageToken).err) =>
           /\ lsPc' = "failed"
           /\ lsPages' = Append(lsPages, [err |-> TRUE, Tickets |-> <<>>,
                                          NextPageToken |-> <<>>, queried |-> FALSE])]_vars

\* a call with a token that does not decode has failed without a query,
\* over a store that holds matching records
C16_Witness ==
    /\ lsPc = "failed"
    /\ lsQuery.PageToken \in ForeignTokens
    /\ DecodeCursor(lsQuery.PageToken).err
    /\ Cardinality(MatchingIds) > 0
    /\ Len(lsPages) = 1
    /\ ~lsPages[1].queried

\* the cursor of the request that page i answers: the token of the page
\* before it
RequestCursor(i) == DecodeCursor(lsPages[i - 1].NextPageToken).c

\* C22: every page returned for a list request holds at most Size(PageSize)
\* records (so at most 200), each satisfying the query's filters, in
\* strictly descending identifier order; when the request carried a cursor,
\* every identifier of the page is strictly less than the cursor's.
C22_PageBounded ==
    \A i \in 1..Len(lsPages) :
        /\ Len(lsPages[i].Tickets) <= EffectiveSize
        /\ Len(lsPages[i].Tickets) <= 200
        /\ \A j \in 1..Len(lsPages[i].Tickets) :
            /\ Num(lsPages[i].Tickets[j].ID) \in MatchingIds
            /\ lsQuery.Category # "" => lsPages[i].Tickets[j].Category = lsQuery.Category
            /\ j > 1 => Num(lsPages[i].Tickets[j].ID) < Num(lsPages[i].Tickets[j - 1].ID)
            /\ i > 1 => Num(lsPages[i].Tickets[j].ID) < Num(RequestCursor(i).ID)

\* a second page of two records under a category filter, answered with a
\* cursor, over a store that holds more matching records than the page
C22_Witness ==
    /\ Len(lsPages) >= 2
    /\ lsQuery.Category = "Network"
    /\ EffectiveSize = 2
    /\ Len(lsPages[2].Tickets) = 2
    /\ Cardinality(MatchingIds) = 4
    /\ Cardinality(db) > Cardinality(MatchingIds)
    /\ Num(lsPages[2].Tickets[1].ID) < Num(RequestCursor(2).ID)

\* timestamps a forged token may carry
ForgedTimes == {t \in CursorTimes : t.year <= 9999}

\* the request that page i answered
RequestOf(i) ==
    [Category |-> lsQuery.Category, PageSize |-> lsQuery.PageSize,
     PageToken |-> lsPages[i - 1].NextPageToken]

\* the same request with the timestamp of its token replaced
ForgedRequest(i, tm) ==
    [Category |-> lsQuery.Category, PageSize |-> lsQuery.PageSize,
     PageToken |-> EncodeCursor(MkCursor(RequestCursor(i).ID, tm))]

\* C24: a token acts on the list query through its identifier only: a token
\* that decodes to the identifier of the request's token and to another
\* timestamp yields the same predicate and the same page as the request's
\* token did, for the same filters and store.
C24_TokenTimeIgnored ==
    \A i \in 2..Len(lsPages) :
        ~lsPages[i].err =>
            \A tm \in ForgedTimes :
                /\ DecodeCursor(ForgedRequest(i, tm).PageToken) =
                       [err |-> FALSE, c |-> MkCursor(RequestCursor(i).ID, tm)]
                /\ TicketQueryToSql(ForgedRequest(i, tm)) = TicketQueryToSql(RequestOf(i))
                /\ ListTickets(db, ForgedRequest(i, tm), TRUE) = lsPages[i]

\* a second page with records has been returned for a token whose
\* timestamp differs from every forged one but its own
C24_Witness ==
    /\ Len(lsPages) = 2
    /\ ~lsPages[2].err
    /\ Len(lsPages[2].Tickets) = 2
    /\ \E tm \in ForgedTimes :
        /\ tm # RequestCursor(2).Time
        /\ ForgedRequest(2, tm).PageToken # lsPages[1].NextPageToken
        /\ ListTickets(db, ForgedRequest(2, tm), TRUE).Tickets = lsPages[2].Tickets

\* no call of the walk has failed
NoCallFailed == \A i \in 1..Len(lsPages) : ~lsPages[i].err

\* the number of full pages the matching records fill
FullPages == Cardinality(MatchingIds) \div EffectiveSize

\* C26: when the number N of matching records is a positive exact multiple
\* of the effective page size S, the call that returns the last S records
\* still returns a non-empty nextPageToken, the call with that token returns
\* an empty page with an empty token, and the full walk takes N div S + 1
\* calls.
C26_ExactMultipleExtraCall ==
    (/\ Cardinality(MatchingIds) > 0
     /\ Cardinality(MatchingIds) % EffectiveSize = 0
     /\ NoCallFailed) =>
        /\ Len(lsPages) <= FullPages + 1
        /\ Len(lsPages) >= FullPages =>
            /\ Len(lsPages[FullPages].Tickets) = EffectiveSize
            /\ Num(lsPages[FullPages].Tickets[EffectiveSize].ID) =
                   CHOOSE m \in MatchingIds : \A o \in MatchingIds : m <= o
            /\ lsPages[FullPages].NextPageToken # <<>>
        /\ Len(lsPages) = FullPages + 1 =>
            /\ lsPages[FullPages + 1].Tickets = <<>>
            /\ lsPages[FullPages + 1].NextPageToken = <<>>
        /\ lsPc = "done" <=> Len(lsPages) = FullPages + 1

\* forty matching records walked in pages of the default size: two full
\* pages with a token each, then the empty page that ends the walk
C26_Witness ==
    /\ Cardinality(MatchingIds) = 2 * DefaultSize
    /\ lsQuery.PageSize = ToUint64(0)
    /\ NoCallFailed
    /\ lsPc = "done"
    /\ Len(lsPages) = 3
    /\ lsPages[2].NextPageToken # <<>>
    /\ lsPages[3].Tickets = <<>>

(***************************************************************************)
(* Properties of GenExcel.                                                 *)
(***************************************************************************)
\* the identifiers of the records that match the export's filter
ExMatchingIds == {r.id : r \in {x \in db : exQuery.Category # "" => x.category = exQuery.Category}}
ExN == Cardinality(ExMatchingIds)
CeilDiv(n, b) == (n + b - 1) \div b

Succeeded == exPc = "returned" /\ exResult.has
TicketTasks == {k \in 1..Len(exTasks) : exTasks[k].kind = "tickets"}
LastRow(t) == t.startRow + Len(t.items) - 1

\* C2 (as stated): when GenExcel returns a document, its detail sheet has
\* exactly N ticket rows, in rows 2..N+1, no gap, no row written twice, and
\* the identifiers strictly descend from each row to the next.
C2_DetailRows ==
    Succeeded =>
        LET d == exResult.doc.detail
        IN  /\ DOMAIN d = 1..(ExN + 1)
            /\ \A r \in 2..(ExN + 1) :
                /\ Len(d[r]) = 1
                /\ Num(d[r][1].v.ID) \in ExMatchingIds
            /\ \A r \in 2..ExN : Num(d[r][1].v.ID) > Num(d[r + 1][1].v.ID)

\* C2: the case in which every row fits the sheet, where the statement holds
C2_Witness ==
    /\ Succeeded
    /\ ExN = DetailRowLimit - 1
    /\ ExN > BatchSize
    /\ DOMAIN exResult.doc.detail = 1..(ExN + 1)

\* C3 (as stated): a successful GenExcel has issued exactly ceil(N/B) calls
\* of batchGetTickets.
C3_Original == Succeeded => exFetches = CeilDiv(ExN, BatchSize)

\* C3: a successful GenExcel has issued exactly ceil(N/B) + 1 calls of
\* batchGetTickets: the loop ends on the first empty page, so the pages that
\* carry records are followed by one more call that returns none.
C3_FetchCount == Succeeded => exFetches = CeilDiv(ExN, BatchSize) + 1

\* a short last page is followed by one more call
C3_Witness ==
    /\ Succeeded
    /\ ExN = BatchSize + 1
    /\ exFetches = 3

\* C4: the row ranges handed to any two ticket writers are disjoint: each
\* is [startRow, startRow+len-1], the next one starts right after the last
\* row of the one before, and no row of the detail sheet is written twice or
\* by a writer whose range does not hold it, at every point of every
\* interleaving.
C4_DisjointRanges ==
    /\ \A j, k \in TicketTasks : j < k => LastRow(exTasks[j]) < exTasks[k].startRow
    /\ \A k \in TicketTasks :
        /\ k + 1 \in TicketTasks => exTasks[k + 1].startRow = LastRow(exTasks[k]) + 1
        /\ k + 1 \notin TicketTasks /\ exPc \notin {"returned"} /\ exPc # "dispatch" =>
            exStartRow = LastRow(exTasks[k]) + 1
    /\ \A r \in DOMAIN exDetail \ {1} :
        /\ Len(exDetail[r]) = 1
        /\ exDetail[r][1].w \in TicketTasks
        /\ r \in exTasks[exDetail[r][1].w].startRow..LastRow(exTasks[exDetail[r][1].w])

\* two ticket writers are in the middle of their ranges at the same time
C4_Witness ==
    \E j, k \in TicketTasks :
        /\ j < k
        /\ exTasks[j].i = 1 /\ Len(exTasks[j].items) = 2
        /\ exTasks[k].i = 1 /\ Len(exTasks[k].items) = 2

\* C5: WriteToBuffer is not reached while a dispatched writer (of detail
\* rows or of a summary table) is still running: at the serialization, and
\* in a returned document, every task registered with the WaitGroup is done
\* and the document holds all that the writers wrote.
C5_JoinBeforeSerialize ==
    /\ exPc = "serialize" => \A k \in 1..Len(exTasks) : exTasks[k].done
    /\ Succeeded =>
        /\ \A k \in 1..Len(exTasks) : exTasks[k].done
        /\ exResult.doc = [detail |-> exDetail, summary |-> exSummary]
        /\ ~exLate

\* the serialization is reached after the three summary writers and two
\* ticket writers have run
C5_Witness ==
    /\ exPc = "serialize"
    /\ Len(exTasks) >= 5
    /\ \A k \in 1..Len(exTasks) : exTasks[k].i = Len(exTasks[k].items)

\* every ticket and every report row is in the document, once
Complete(doc) ==
    /\ DOMAIN doc.detail = 1..(ExN + 1)
    /\ \A r \in 2..(ExN + 1) : Len(doc.detail[r]) = 1
    /\ {Num(doc.detail[r][1].v.ID) : r \in 2..(ExN + 1)} = ExMatchingIds
    /\ Cardinality(DOMAIN doc.summary) =
           4 + Len(exReports.cat) + Len(exReports.sup) + Len(exReports.pri)

\* C6 (as stated): GenExcel returns either a complete document and no
\* error, or an error and no document; a partially populated document is
\* never returned.
C6_AllOrNothing ==
    exPc = "returned" =>
        \/ exResult.has /\ ~exResult.err /\ Complete(exResult.doc)
        \/ ~exResult.has /\ exResult.err /\ exResult.doc = EmptyDoc

\* C6: a failed fetch yields an error and no document
C6_Witness ==
    /\ exPc = "returned"
    /\ exResult.err
    /\ ~exResult.has
    /\ exFetches >= 2

\* C7 (as stated): a cell write that fails inside a writer makes GenExcel
\* return an error, and the document is not serialized.
C7_WriteErrorSurfaced ==
    exDropped > 0 =>
        /\ exPc # "serialize"
        /\ exPc = "returned" => exResult.err /\ ~exResult.has

\* C7: a cell write has failed and GenExcel has returned
C7_Witness ==
    /\ exDropped > 0
    /\ exPc = "returned"

\* C13 (as stated): in every row of the three aggregate reports the bucket
\* counts sum to the total, whatever the ticket population, rows with no
\* status or no priority included.
C13_BucketsSumToTotal ==
    /\ \A i \in 1..Len(exReports.cat) :
        exReports.cat[i].InProgress + exReports.cat[i].Resolved + exReports.cat[i].Blank
            = exReports.cat[i].Total
    /\ \A i \in 1..Len(exReports.sup) :
        exReports.sup[i].InProgress + exReports.sup[i].Resolved + exReports.sup[i].Blank
            = exReports.sup[i].Total
    /\ \A i \in 1..Len(exReports.pri) :
        exReports.pri[i].High + exReports.pri[i].Medium + exReports.pri[i].Low
            + exReports.pri[i].Blank = exReports.pri[i].Total

\* C13: the three reports of a population in which every status and every
\* priority holds a value, one of them outside the named buckets
C13_Witness ==
    /\ exPc = "newFile"
    /\ \A r \in db : ~ScanFails(r)
    /\ \E i \in 1..Len(exReports.cat) : exReports.cat[i].Blank > 0
    /\ \E i \in 1..Len(exReports.pri) : exReports.pri[i].Blank > 0
    /\ C13_BucketsSumToTotal

\* C17: the store is never mutated: after any sequence of steps of
\* ListTickets and GenExcel calls, successful or failing, it holds the rows
\* it held at the start.
C17_StoreUnchanged == db = lsStart

\* a finished walk and a finished export over a store with records
C17_Witness ==
    /\ lsPc = "done"
    /\ Len(lsPages) >= 2
    /\ exPc = "returned"
    /\ exResult.has
    /\ exFetches >= 2
    /\ db = lsStart

\* C18 (as stated): when the context is cancelled during GenExcel, the
\* call returns the error it met with no document, every writer dispatched
\* has ended before GenExcel returns and closes the document, and no writer
\* writes into the document after it is closed.
C18_CancelJoinsWriters ==
    exCtx = "cancelled" =>
        /\ (exPc = "returned" /\ exResult.err) => ~exResult.has
        /\ exPc = "returned" => \A k \in 1..Len(exTasks) : exTasks[k].done
        /\ exClosed => \A k \in 1..Len(exTasks) : exTasks[k].done
        /\ ~exLate

\* C18: a fetch has failed on the cancelled context, GenExcel has returned
\* the error and closed the document, and a writer has written after that
C18_Witness ==
    /\ exCtx = "cancelled"
    /\ exPc = "returned"
    /\ exResult.err /\ ~exResult.has
    /\ exClosed
    /\ exLate

\* the positions at which the goroutine of GenExcel mutates the document
MainWritePositions == {"newFile", "catHeader", "supHeader", "priHeader"}

\* C19 (as stated): every mutation of the document by the goroutine of
\* GenExcel (sheets, header cells, row styles of the three summary tables)
\* happens before the first writer goroutine is started, so none of them is
\* concurrent with a running writer.
C19_MainWritesBeforeWriters ==
    exPc \in MainWritePositions => exTasks = <<>>

\* C19: GenExcel is about to write the header of the supporter table while
\* the category writer is in the middle of its rows
C19_Witness ==
    /\ exPc = "supHeader"
    /\ Len(exTasks) = 1
    /\ ~exTasks[1].done
    /\ exTasks[1].i = 1
    /\ Len(exTasks[1].items) = 2

\* the rows of a summary table: its header and its data rows
TableRows(t) == t.startRow..(t.startRow + Len(t.items))

SummaryTasks == {k \in 1..Len(exTasks) : exTasks[k].kind # "tickets"}

\* C20: the header of the category table is at row 4 and the header of each
\* following table is at the header before it + 10 + the row count of the
\* table before it; the rows of the three tables (header and header+1 ..
\* header+count) are pairwise disjoint and no row of the summary sheet is
\* written twice: a header row is written by GenExcel and a data row by the
\* writer of its table only.
C20_SummaryLayout ==
    /\ Len(exTasks) >= 1 =>
        exTasks[1].kind = "category" /\ exTasks[1].startRow = 4
    /\ Len(exTasks) >= 2 =>
        /\ exTasks[2].kind = "supporter"
        /\ exTasks[2].startRow = exTasks[1].startRow + 10 + Len(exTasks[1].items)
    /\ Len(exTasks) >= 3 =>
        /\ exTasks[3].kind = "priority"
        /\ exTasks[3].startRow = exTasks[2].startRow + 10 + Len(exTasks[2].items)
    /\ \A j, k \in SummaryTasks :
        j # k => TableRows(exTasks[j]) \cap TableRows(exTasks[k]) = {}
    /\ \A r \in DOMAIN exSummary :
        /\ Len(exSummary[r]) = 1
        /\ exSummary[r][1].w = 0 =>
               r = 1 \/ r \in {startCategoryReportRow, startSupporterReportRow,
                               startPriorityReportRow}
        /\ exSummary[r][1].w # 0 =>
            /\ exSummary[r][1].w \in SummaryTasks
            /\ r \in TableRows(exTasks[exSummary[r][1].w]) \ {exTasks[exSummary[r][1].w].startRow}

\* the three summary writers are in the middle of their rows at once
C20_Witness ==
    /\ Len(exTasks) >= 3
    /\ \A k \in 1..3 : exTasks[k].i = 1 /\ Len(exTasks[k].items) >= 2 /\ ~exTasks[k].done

\* the identifier of the last record handed to a ticket writer so far
LastDispatchedID ==
    IF TicketTasks = {} THEN <<>>
    ELSE exTasks[Len(exTasks)].items[Len(exTasks[Len(exTasks)].items)].ID

\* C21: nextID is assigned by the loop of GenExcel only, at the statement
\* between s.mu.Lock() and s.mu.Unlock() with the mutex held; the steps of
\* the writers leave it as it is, so it is always the identifier of the last
\* record of the last non-empty page (of the page in hand between the
\* assignment and the go statement), and the predicate of each fetch carries
\* the value the loop stored last.
C21_CursorUnderMutex ==
    /\ exPc = "advance" <=> mu = "held"
    /\ exNextID = IF exPc = "dispatch" THEN exTickets[Len(exTickets)].ID
                  ELSE LastDispatchedID
    /\ exPc \in {"lock", "advance", "dispatch", "wait"} =>
           exQuery.nextID = LastDispatchedID

\* the loop holds the mutex and is about to store the cursor of its second
\* page while the writer of the first page is in the middle of its rows
C21_Witness ==
    /\ exPc = "advance"
    /\ mu = "held"
    /\ exFetches = 2
    /\ exQuery.nextID = exNextID
    /\ exNextID # <<>>
    /\ \E k \in TicketTasks : exTasks[k].i = 1 /\ ~exTasks[k].done

\* the positions of GenExcel at which a report has been fetched
CategoryFetched == exPc \notin {"idle", "catReport", "returned"}
SupporterFetched == CategoryFetched /\ exPc # "supReport"
PriorityFetched == SupporterFetched /\ exPc # "priReport"

\* C23: no row of the three aggregate reports has an empty group name; the
\* group of the rows whose name is empty in the store is returned under the
\* name "(Blank)".
C23_NoEmptyGroupName ==
    /\ \A i \in 1..Len(exReports.cat) : exReports.cat[i].Name # ""
    /\ \A i \in 1..Len(exReports.sup) : exReports.sup[i].Name # ""
    /\ \A i \in 1..Len(exReports.pri) : exReports.pri[i].Name # ""
    /\ (CategoryFetched /\ \E r \in db : r.category = "") =>
        \E i \in 1..Len(exReports.cat) :
            /\ exReports.cat[i].Name = "(Blank)"
            /\ exReports.cat[i].Total = Cardinality({r \in db : r.category = ""})
    /\ (SupporterFetched /\ \E r \in db : r.supporter_name = "") =>
        \E i \in 1..Len(exReports.sup) :
            /\ exReports.sup[i].Name = "(Blank)"
            /\ exReports.sup[i].Total = Cardinality({r \in db : r.supporter_name = ""})
    /\ (PriorityFetched /\ \E r \in db : r.category = "") =>
        \E i \in 1..Len(exReports.pri) :
            /\ exReports.pri[i].Name = "(Blank)"
            /\ exReports.pri[i].Total = Cardinality({r \in db : r.category = ""})

\* the three reports of a store with an empty category and an empty
\* supporter name
C23_Witness ==
    /\ exPc = "newFile"
    /\ \E r \in db : r.category = ""
    /\ \E r \in db : r.supporter_name = ""
    /\ exReports.cat[1].Name = "(Blank)" /\ exReports.cat[1].Total = 2
    /\ exReports.sup[1].Name = "(Blank)"
    /\ exReports.pri[1].Name = "(Blank)"

\* the identifier of the last record handed to the ticket writer k
CursorAfter(k) == Num(exTasks[k].items[Len(exTasks[k].items)].ID)

\* the loop of GenExcel has been left
LoopLeft == exPc \in {"wait", "serialize", "returned"}

\* the cursor strictly decreases from each non-empty page to the next, a
\* page holds only identifiers strictly below the cursor it was fetched
\* with, the loop is left through the break exactly with an empty page in
\* hand, and no writer is started for an empty page
LoopProgress ==
    /\ \A k \in TicketTasks :
        /\ Len(exTasks[k].items) > 0
        /\ k - 1 \in TicketTasks =>
            /\ CursorAfter(k) < CursorAfter(k - 1)
            /\ \A j \in 1..Len(exTasks[k].items) :
                   Num(exTasks[k].items[j].ID) < CursorAfter(k - 1)
    /\ exPc \in {"lock", "advance", "dispatch"} =>
        /\ exTickets # <<>>
        /\ exQuery.nextID # <<>> =>
               \A j \in 1..Len(exTickets) : Num(exTickets[j].ID) < Num(exQuery.nextID)
    /\ exPc = "dispatch" =>
        /\ exNextID # <<>>
        /\ exQuery.nextID # <<>> => Num(exNextID) < Num(exQuery.nextID)
    /\ exPc \in {"wait", "serialize"} \/ Succeeded => exTickets = <<>>

\* C25: over a finite, unchanging result set the batch loop of GenExcel
\* terminates: the cursor strictly decreases after each non-empty page, each
\* fetch returns only identifiers strictly below it, the loop ends exactly
\* when a fetch returns an empty page, for which no writer is started, and
\* the loop is always left in the end.
C25_LoopTerminates == []LoopProgress /\ <>LoopLeft

\* the loop has ended on the empty page that followed two pages with
\* records
C25_Witness ==
    /\ exPc = "wait"
    /\ exTickets = <<>>
    /\ exFetches = 3
    /\ Cardinality(TicketTasks) = 2
    /\ CursorAfter(Len(exTasks)) < CursorAfter(Len(exTasks) - 1)

\* the writers of a call that have not reached their wg.Done()
CallPending(call) == {k \in 1..Len(call.tasks) : ~call.tasks[k].done}

\* the category a call was given
CallCategory(c) == calls[c].in.Category

\* the document a call over rows returns when it runs alone
AloneDoc(rows, category) ==
    [detail |-> GenExcelAlone(rows, category).detail,
     summary |-> GenExcelAlone(rows, category).summary]

\* the mutex is held only by a call that stands between Lock and Unlock, at
\* the assignment of its cursor, and by one call at a time
MutexAroundAssignment ==
    /\ mu = "held" <=> \E c \in CallIds : calls[c].pc = "advance"
    /\ \A c, d \in CallIds : calls[c].pc = "advance" /\ calls[d].pc = "advance" => c = d

\* a call has left its loop, or returned its document, with the cursor, the
\* row offset, the writers and the document it has when it runs alone
SameAsAlone(c) ==
    /\ calls[c].wg = Cardinality(CallPending(calls[c]))
    /\ calls[c].pc \in {"wait", "serialize"} \/ calls[c].result.has =>
        /\ calls[c].nextID = GenExcelAlone(db, CallCategory(c)).nextID
        /\ calls[c].startRow = GenExcelAlone(db, CallCategory(c)).startRow
        /\ Len(calls[c].tasks) = Len(GenExcelAlone(db, CallCategory(c)).tasks)
    /\ calls[c].result.has => calls[c].result.doc = AloneDoc(db, CallCategory(c))

CallsIndependent == MutexAroundAssignment /\ \A c \in CallIds : SameAsAlone(c)

CallsReturned == \A c \in CallIds : calls[c].pc = "returned"

\* C27: two GenExcel calls running concurrently on one Service do not
\* interfere: each keeps its own cursor, row offset, WaitGroup and document,
\* the service mutex is held only around the assignment of a cursor and
\* never across a fetch or a join-wait, both calls return, and each returns
\* the document it returns when it runs alone.
C27_CallsDoNotInterfere == []CallsIndependent /\ <>CallsReturned

\* both calls have returned their documents, one of every ticket in two
\* pages and one of the Network tickets, and the documents differ
C27_Witness ==
    /\ CallsReturned
    /\ calls[1].result.has /\ calls[2].result.has
    /\ CallCategory(1) = "" /\ CallCategory(2) = "Network"
    /\ Len(calls[1].tasks) = 5
    /\ calls[1].result.doc = AloneDoc(db, "")
    /\ calls[2].result.doc = AloneDoc(db, "Network")
    /\ calls[1].result.doc # calls[2].result.doc

\* one call of GenExcel, step by step, returns the document GenExcelAlone
\* describes
GenExcelAloneAgrees == Succeeded => exResult.doc = AloneDoc(db, exQuery.Category)

(***************************************************************************)
(* Properties of package pager.                                            *)
(***************************************************************************)
\* a cursor json.Marshal can carry: the ID is well-formed UTF-8 and the year
\* of the time lies in [0,9999]
ValidCursor(c) == ValidUTF8(c.ID) /\ c.Time.year \in 0..9999

\* C8: for every valid cursor c, DecodeCursor(EncodeCursor(c)) succeeds and
\* yields a cursor equal to c.
C8_RoundTrip ==
    (pgPc = "decoded" /\ ValidCursor(pgCur)) => pgOut.dec = [err |-> FALSE, c |-> pgCur]

\* a valid cursor whose ID needs escaping and whose time has a fraction and a
\* zone has gone through both calls
C8_Witness ==
    /\ pgPc = "decoded"
    /\ ValidCursor(pgCur)
    /\ pgCur.ID = <<34, 92>>
    /\ pgCur.Time.nsec # 0
    /\ pgCur.Time.off # 0
    /\ pgOut.token # <<>>

C10_Idempotent == pgPc = "resized" => pgOut.size2 = pgOut.size

\* Size has been applied twice to a request that the first call changed
C10_Witness == pgPc = "resized" /\ pgReq = 0 /\ pgOut.size2 = ToUint64(20)

====
